---- MODULE Spec2Model ----
(***************************************************************************)
(* Model of the webhook ingestion path of github-global:                    *)
(*   src/src/app/api/webhooks/github/route.ts      (POST, the delivery      *)
(*       cache, filterFilesToTranslate, matchPath)                          *)
(*   src/src/lib/translation/filename-translator.ts (translateFilename,     *)
(*       getTranslatedPath, verifyWebhookSignature, getWebhookSecret)       *)
(*                                                                          *)
(* A JavaScript string is a sequence of characters.  A character is a       *)
(* one-character TLA+ string for a 7-bit ASCII character ("a", "/", ".")    *)
(* and the string "uXXXX" for the UTF-16 code unit XXXX above 0x7F          *)
(* ("u4ECB" is U+4ECB).  A nullable value is a sequence of length at most   *)
(* one: <<>> is null/undefined, <<v>> is the value v.                       *)
(***************************************************************************)
EXTENDS Integers, Sequences, FiniteSets, TLC

VARIABLES
    now,                  \* Date.now(), in milliseconds
    secretEnv,            \* process.env.GITHUB_WEBHOOK_SECRET (nullable)
    processedDeliveries,  \* the Map delivery id -> expiry time
    handler,              \* the POST invocation in progress, or the last one
    tasks,                \* rows written by prisma.translationTask.create
    queue,                \* job data handed to translationQueue.add
    firstSeen,            \* history: when each delivery id was last recorded
    received,             \* history: how many requests have arrived
    suspended,            \* the POST invocations waiting at an await
    input,                \* arguments of the pure function under check
    output,               \* its results so far
    stage,                \* which call of the pure-function check comes next
    submitters,           \* the callers of translationQueue.add and their position
    progress,             \* the JobProgress of each task
    active,               \* the jobs the queue has handed to the processor
    addOrder,             \* history: task ids in the order add received them
    startOrder,           \* history: task ids in the order they were dispatched
    writes,               \* history: whose source-control writes came in turn
    outcomes,             \* history: per task, how each attempted unit ended
    execution             \* the units of the running job: each one's position,
                          \* the holding branch, the source-control calls made

vars == <<now, secretEnv, processedDeliveries, handler, tasks, queue,
          firstSeen, received, suspended, input, output, stage, submitters, progress,
          active, addOrder, startOrder, writes, outcomes, execution>>

engineVars == <<submitters, progress, active, addOrder, startOrder, writes,
                outcomes, execution>>

webhookVars == <<now, secretEnv, processedDeliveries, handler, tasks, queue,
                 firstSeen, received, suspended>>

pureVars == <<input, output, stage>>

-----------------------------------------------------------------------------
(* Nullable values and JavaScript strings                                   *)

None == <<>>

Some(v) == <<v>>

\* The elements of an array
Range(seq) == {seq[i] : i \in 1..Len(seq)}

\* String.prototype.startsWith
startsWith(s, prefix) ==
    /\ Len(prefix) <= Len(s)
    /\ SubSeq(s, 1, Len(prefix)) = prefix

\* String.prototype.endsWith
endsWith(s, suffix) ==
    /\ Len(suffix) <= Len(s)
    /\ SubSeq(s, Len(s) - Len(suffix) + 1, Len(s)) = suffix

\* String.prototype.indexOf, as a 1-based position; 0 when sub does not occur
indexOf(s, sub) ==
    LET hits == {i \in 1..(Len(s) - Len(sub) + 1) :
                    SubSeq(s, i, i + Len(sub) - 1) = sub}
    IN  IF hits = {} THEN 0 ELSE CHOOSE i \in hits : \A j \in hits : i <= j

\* String.prototype.includes
includes(s, sub) == indexOf(s, sub) # 0

\* String.prototype.replace with a string pattern: the first occurrence only
replaceFirst(s, sub, repl) ==
    LET i == indexOf(s, sub)
    IN  IF i = 0 THEN s
        ELSE SubSeq(s, 1, i - 1) \o repl \o SubSeq(s, i + Len(sub), Len(s))

\* String.prototype.lastIndexOf for one character, 0-based as in JavaScript;
\* -1 when the character does not occur
lastIndexOf(s, c) ==
    LET hits == {i \in 1..Len(s) : s[i] = c}
    IN  IF hits = {} THEN -1
        ELSE (CHOOSE i \in hits : \A j \in hits : j <= i) - 1

\* String.prototype.split for a one-character separator
RECURSIVE split(_, _)
split(s, sep) ==
    LET i == indexOf(s, <<sep>>)
    IN  IF i = 0 THEN <<s>>
        ELSE <<SubSeq(s, 1, i - 1)>> \o split(SubSeq(s, i + 1, Len(s)), sep)

\* Array.prototype.join for a one-character separator
RECURSIVE join(_, _)
join(parts, sep) ==
    IF Len(parts) = 0 THEN <<>>
    ELSE IF Len(parts) = 1 THEN parts[1]
    ELSE parts[1] \o <<sep>> \o join(Tail(parts), sep)

\* s.replace(/c/g, repl) for a single literal character c
RECURSIVE replaceAllChar(_, _, _)
replaceAllChar(s, c, repl) ==
    IF s = <<>> THEN <<>>
    ELSE (IF Head(s) = c THEN repl ELSE <<Head(s)>>)
         \o replaceAllChar(Tail(s), c, repl)

-----------------------------------------------------------------------------
(* matchPath: the pattern is rewritten into a regular expression source by  *)
(* three String.replace calls, compiled with ^ and $ around it, and tested. *)

\* s.replace(/\*\*/g, '.*'): non-overlapping matches, left to right
RECURSIVE replaceDoubleStar(_)
replaceDoubleStar(s) ==
    IF s = <<>> THEN <<>>
    ELSE IF Len(s) >= 2 /\ s[1] = "*" /\ s[2] = "*"
         THEN <<".", "*">> \o replaceDoubleStar(SubSeq(s, 3, Len(s)))
         ELSE <<Head(s)>> \o replaceDoubleStar(Tail(s))

\* regexPattern without the replace of line 268, which escapes the dots
regexPattern_dotsUnescaped(pattern) ==
    replaceAllChar(replaceDoubleStar(pattern), "*", <<"[", "^", "/", "]", "*">>)

\* The regular expression source matchPath builds from a pattern: each
\* replace works on the output of the one before it.
regexPattern(pattern) ==
    replaceAllChar(
        replaceAllChar(replaceDoubleStar(pattern), "*",
                       <<"[", "^", "/", "]", "*">>),
        ".", <<"\\", ".">>)

\* One atom of a regular expression: a literal character, the wildcard "."
\* or a negated one-character class [^c], possibly under a star.
Atom(kind, ch, star) == [kind |-> kind, ch |-> ch, star |-> star]

\* The length of the atom that starts the regular expression source src
atomLen(src) ==
    IF src[1] = "\\" /\ Len(src) >= 2 THEN 2
    ELSE IF Len(src) >= 4 /\ src[1] = "[" /\ src[2] = "^" /\ src[4] = "]" THEN 4
    ELSE 1

\* new RegExp(src): the sequence of atoms of the source, for the syntax
\* the three replacements can produce (escapes, ".", [^c], postfix "*")
RECURSIVE compile(_)
compile(src) ==
    IF src = <<>> THEN <<>>
    ELSE LET n    == atomLen(src)
             star == Len(src) > n /\ src[n + 1] = "*"
             atom == IF n = 2 THEN Atom("lit", src[2], star)
                     ELSE IF n = 4 THEN Atom("not", src[3], star)
                     ELSE IF src[1] = "." THEN Atom("any", ".", star)
                     ELSE Atom("lit", src[1], star)
         IN  <<atom>> \o compile(SubSeq(src, n + (IF star THEN 2 ELSE 1), Len(src)))

\* Whether one atom accepts the character c
accepts(atom, c) ==
    CASE atom.kind = "lit" -> c = atom.ch
      [] atom.kind = "not" -> c # atom.ch
      [] OTHER             -> TRUE

\* Whether atoms[i..] matches exactly s[j..] (the expression is anchored
\* by ^ and $, so the whole of s must be consumed)
RECURSIVE matchFrom(_, _, _, _)
matchFrom(atoms, i, s, j) ==
    IF i > Len(atoms) THEN j > Len(s)
    ELSE IF atoms[i].star
         THEN \/ matchFrom(atoms, i + 1, s, j)
              \/ /\ j <= Len(s)
                 /\ accepts(atoms[i], s[j])
                 /\ matchFrom(atoms, i, s, j + 1)
         ELSE /\ j <= Len(s)
              /\ accepts(atoms[i], s[j])
              /\ matchFrom(atoms, i + 1, s, j + 1)

\* regex.test(path) for new RegExp(`^${src}$`)
regexTest(src, path) == matchFrom(compile(src), 1, path, 1)

matchPath(path, pattern) == regexTest(regexPattern(pattern), path)

-----------------------------------------------------------------------------
(* filterFilesToTranslate                                                    *)

MD == <<".", "m", "d">>

MDX == <<".", "m", "d", "x">>

TRANSLATIONS_PREFIX == <<"t", "r", "a", "n", "s", "l", "a", "t", "i", "o", "n", "s", "/">>

\* Array.prototype.some over a list of patterns
somePattern(patterns, file) ==
    \E k \in 1..Len(patterns) : matchPath(file, patterns[k])

\* keepFile with the include list consulted before the exclude list, so that
\* an include match wins over an exclude match
keepFile_includeWins(file, includePaths, excludePaths) ==
    IF ~endsWith(file, MD) /\ ~endsWith(file, MDX) THEN FALSE
    ELSE IF startsWith(file, TRANSLATIONS_PREFIX) THEN FALSE
    ELSE IF includePaths # None /\ Len(includePaths[1]) > 0
            /\ somePattern(includePaths[1], file) THEN TRUE
    ELSE IF excludePaths # None /\ somePattern(excludePaths[1], file) THEN FALSE
    ELSE includePaths = None \/ Len(includePaths[1]) = 0

\* The callback of files.filter: includePaths and excludePaths are nullable
\* lists of patterns
keepFile(file, includePaths, excludePaths) ==
    IF ~endsWith(file, MD) /\ ~endsWith(file, MDX) THEN FALSE
    ELSE IF startsWith(file, TRANSLATIONS_PREFIX) THEN FALSE
    ELSE IF excludePaths # None /\ somePattern(excludePaths[1], file) THEN FALSE
    ELSE IF includePaths # None /\ Len(includePaths[1]) > 0
         THEN somePattern(includePaths[1], file)
    ELSE TRUE

filterFilesToTranslate(files, includePaths, excludePaths) ==
    LET keep(file) == keepFile(file, includePaths, excludePaths)
    IN  SelectSeq(files, keep)
-----------------------------------------------------------------------------
(* translateFilename and getTranslatedPath                                   *)

\* The entries of the table in the order Object.entries yields them (the
\* order of the source), each <<key, value>>
FILENAME_MAPPING == <<
    <<<<"u81EA", "u8FF0", "u6587", "u4EF6">>,
      <<"R", "E", "A", "D", "M", "E">>>>,  \* line 10: README
    <<<<"u8BF4", "u660E">>,
      <<"R", "E", "A", "D", "M", "E">>>>,  \* line 11: README
    <<<<"u4ECB", "u7ECD">>,
      <<"I", "n", "t", "r", "o", "d", "u", "c", "t", "i", "o", "n">>>>,  \* line 12: Introduction
    <<<<"u7B80", "u4ECB">>,
      <<"I", "n", "t", "r", "o", "d", "u", "c", "t", "i", "o", "n">>>>,  \* line 13: Introduction
    <<<<"u6982", "u8FF0">>,
      <<"O", "v", "e", "r", "v", "i", "e", "w">>>>,  \* line 14: Overview
    <<<<"u6982", "u89C8">>,
      <<"O", "v", "e", "r", "v", "i", "e", "w">>>>,  \* line 15: Overview
    <<<<"u5165", "u95E8">>,
      <<"G", "e", "t", "t", "i", "n", "g", "-", "S", "t", "a", "r", "t", "e", "d">>>>,  \* line 16: Getting-Started
    <<<<"u5FEB", "u901F", "u5F00", "u59CB">>,
      <<"Q", "u", "i", "c", "k", "-", "S", "t", "a", "r", "t">>>>,  \* line 17: Quick-Start
    <<<<"u5FEB", "u901F", "u5165", "u95E8">>,
      <<"Q", "u", "i", "c", "k", "-", "S", "t", "a", "r", "t">>>>,  \* line 18: Quick-Start
    <<<<"u5B89", "u88C5">>,
      <<"I", "n", "s", "t", "a", "l", "l", "a", "t", "i", "o", "n">>>>,  \* line 19: Installation
    <<<<"u5B89", "u88C5", "u6307", "u5357">>,
      <<"I", "n", "s", "t", "a", "l", "l", "a", "t", "i", "o", "n", "-", "G", "u", "i", "d", "e">>>>,  \* line 20: Installation-Guide
    <<<<"u4F7F", "u7528">>,
      <<"U", "s", "a", "g", "e">>>>,  \* line 21: Usage
    <<<<"u4F7F", "u7528", "u6307", "u5357">>,
      <<"U", "s", "a", "g", "e", "-", "G", "u", "i", "d", "e">>>>,  \* line 22: Usage-Guide
    <<<<"u4F7F", "u7528", "u8BF4", "u660E">>,
      <<"U", "s", "a", "g", "e", "-", "G", "u", "i", "d", "e">>>>,  \* line 23: Usage-Guide
    <<<<"u6559", "u7A0B">>,
      <<"T", "u", "t", "o", "r", "i", "a", "l">>>>,  \* line 24: Tutorial
    <<<<"u6307", "u5357">>,
      <<"G", "u", "i", "d", "e">>>>,  \* line 25: Guide
    <<<<"u914D", "u7F6E">>,
      <<"C", "o", "n", "f", "i", "g", "u", "r", "a", "t", "i", "o", "n">>>>,  \* line 26: Configuration
    <<<<"u914D", "u7F6E", "u8BF4", "u660E">>,
      <<"C", "o", "n", "f", "i", "g", "u", "r", "a", "t", "i", "o", "n", "-", "G", "u", "i", "d", "e">>>>,  \* line 27: Configuration-Guide
    <<<<"u5E38", "u89C1", "u95EE", "u9898">>,
      <<"F", "A", "Q">>>>,  \* line 28: FAQ
    <<<<"u95EE", "u9898">>,
      <<"F", "A", "Q">>>>,  \* line 29: FAQ
    <<<<"u66F4", "u65B0", "u65E5", "u5FD7">>,
      <<"C", "H", "A", "N", "G", "E", "L", "O", "G">>>>,  \* line 30: CHANGELOG
    <<<<"u53D8", "u66F4", "u65E5", "u5FD7">>,
      <<"C", "H", "A", "N", "G", "E", "L", "O", "G">>>>,  \* line 31: CHANGELOG
    <<<<"u53D8", "u66F4", "u8BB0", "u5F55">>,
      <<"C", "H", "A", "N", "G", "E", "L", "O", "G">>>>,  \* line 32: CHANGELOG
    <<<<"u8D21", "u732E">>,
      <<"C", "o", "n", "t", "r", "i", "b", "u", "t", "i", "n", "g">>>>,  \* line 33: Contributing
    <<<<"u8D21", "u732E", "u6307", "u5357">>,
      <<"C", "o", "n", "t", "r", "i", "b", "u", "t", "i", "n", "g", "-", "G", "u", "i", "d", "e">>>>,  \* line 34: Contributing-Guide
    <<<<"u8BB8", "u53EF", "u8BC1">>,
      <<"L", "I", "C", "E", "N", "S", "E">>>>,  \* line 35: LICENSE
    <<<<"u534F", "u8BAE">>,
      <<"L", "I", "C", "E", "N", "S", "E">>>>,  \* line 36: LICENSE
    <<<<"u4F5C", "u8005">>,
      <<"A", "u", "t", "h", "o", "r", "s">>>>,  \* line 37: Authors
    <<<<"u7EF4", "u62A4", "u8005">>,
      <<"M", "a", "i", "n", "t", "a", "i", "n", "e", "r", "s">>>>,  \* line 38: Maintainers
    <<<<"u81F4", "u8C22">>,
      <<"A", "c", "k", "n", "o", "w", "l", "e", "d", "g", "m", "e", "n", "t", "s">>>>,  \* line 39: Acknowledgments
    <<<<"u9E23", "u8C22">>,
      <<"A", "c", "k", "n", "o", "w", "l", "e", "d", "g", "m", "e", "n", "t", "s">>>>,  \* line 40: Acknowledgments
    <<<<"u53C2", "u8003">>,
      <<"R", "e", "f", "e", "r", "e", "n", "c", "e">>>>,  \* line 41: Reference
    <<<<"u53C2", "u8003", "u6587", "u6863">>,
      <<"R", "e", "f", "e", "r", "e", "n", "c", "e">>>>,  \* line 42: Reference
    <<<<"u6587", "u6863">>,
      <<"D", "o", "c", "u", "m", "e", "n", "t", "a", "t", "i", "o", "n">>>>,  \* line 43: Documentation
    <<<<"u63A5", "u53E3">>,
      <<"A", "P", "I">>>>,  \* line 44: API
    <<<<"u63A5", "u53E3", "u6587", "u6863">>,
      <<"A", "P", "I", "-", "D", "o", "c", "u", "m", "e", "n", "t", "a", "t", "i", "o", "n">>>>,  \* line 45: API-Documentation
    <<<<"u5F00", "u53D1">>,
      <<"D", "e", "v", "e", "l", "o", "p", "m", "e", "n", "t">>>>,  \* line 46: Development
    <<<<"u5F00", "u53D1", "u6307", "u5357">>,
      <<"D", "e", "v", "e", "l", "o", "p", "m", "e", "n", "t", "-", "G", "u", "i", "d", "e">>>>,  \* line 47: Development-Guide
    <<<<"u90E8", "u7F72">>,
      <<"D", "e", "p", "l", "o", "y", "m", "e", "n", "t">>>>,  \* line 48: Deployment
    <<<<"u90E8", "u7F72", "u6307", "u5357">>,
      <<"D", "e", "p", "l", "o", "y", "m", "e", "n", "t", "-", "G", "u", "i", "d", "e">>>>,  \* line 49: Deployment-Guide
    <<<<"u67B6", "u6784">>,
      <<"A", "r", "c", "h", "i", "t", "e", "c", "t", "u", "r", "e">>>>,  \* line 50: Architecture
    <<<<"u8BBE", "u8BA1">>,
      <<"D", "e", "s", "i", "g", "n">>>>,  \* line 51: Design
    <<<<"u8BBE", "u8BA1", "u6587", "u6863">>,
      <<"D", "e", "s", "i", "g", "n", "-", "D", "o", "c", "u", "m", "e", "n", "t">>>>,  \* line 52: Design-Document
    <<<<"u89C4", "u8303">>,
      <<"S", "p", "e", "c", "i", "f", "i", "c", "a", "t", "i", "o", "n">>>>,  \* line 53: Specification
    <<<<"u6807", "u51C6">>,
      <<"S", "t", "a", "n", "d", "a", "r", "d">>>>,  \* line 54: Standard
    <<<<"u6D4B", "u8BD5">>,
      <<"T", "e", "s", "t", "i", "n", "g">>>>,  \* line 55: Testing
    <<<<"u6D4B", "u8BD5", "u6307", "u5357">>,
      <<"T", "e", "s", "t", "i", "n", "g", "-", "G", "u", "i", "d", "e">>>>,  \* line 56: Testing-Guide
    <<<<"u5B89", "u5168">>,
      <<"S", "e", "c", "u", "r", "i", "t", "y">>>>,  \* line 57: Security
    <<<<"u5B89", "u5168", "u6307", "u5357">>,
      <<"S", "e", "c", "u", "r", "i", "t", "y", "-", "G", "u", "i", "d", "e">>>>,  \* line 58: Security-Guide
    <<<<"u6027", "u80FD">>,
      <<"P", "e", "r", "f", "o", "r", "m", "a", "n", "c", "e">>>>,  \* line 59: Performance
    <<<<"u4F18", "u5316">>,
      <<"O", "p", "t", "i", "m", "i", "z", "a", "t", "i", "o", "n">>>>,  \* line 60: Optimization
    <<<<"u793A", "u4F8B">>,
      <<"E", "x", "a", "m", "p", "l", "e", "s">>>>,  \* line 61: Examples
    <<<<"u6848", "u4F8B">>,
      <<"E", "x", "a", "m", "p", "l", "e", "s">>>>,  \* line 62: Examples
    <<<<"u6837", "u4F8B">>,
      <<"E", "x", "a", "m", "p", "l", "e", "s">>>>,  \* line 63: Examples
    <<<<"u9644", "u5F55">>,
      <<"A", "p", "p", "e", "n", "d", "i", "x">>>>,  \* line 64: Appendix
    <<<<"u672F", "u8BED", "u8868">>,
      <<"G", "l", "o", "s", "s", "a", "r", "y">>>>,  \* line 65: Glossary
    <<<<"u8BCD", "u6C47", "u8868">>,
      <<"G", "l", "o", "s", "s", "a", "r", "y">>>>,  \* line 66: Glossary
    <<<<"u7D22", "u5F15">>,
      <<"I", "n", "d", "e", "x">>>>,  \* line 67: Index
    <<<<"u76EE", "u5F55">>,
      <<"T", "a", "b", "l", "e", "-", "o", "f", "-", "C", "o", "n", "t", "e", "n", "t", "s">>>>,  \* line 68: Table-of-Contents
    <<<<"u8DEF", "u7EBF", "u56FE">>,
      <<"R", "o", "a", "d", "m", "a", "p">>>>,  \* line 69: Roadmap
    <<<<"u8BA1", "u5212">>,
      <<"R", "o", "a", "d", "m", "a", "p">>>>,  \* line 70: Roadmap
    <<<<"u7248", "u672C">>,
      <<"V", "e", "r", "s", "i", "o", "n">>>>,  \* line 71: Version
    <<<<"u53D1", "u5E03">>,
      <<"R", "e", "l", "e", "a", "s", "e">>>>,  \* line 72: Release
    <<<<"u53D1", "u5E03", "u8BF4", "u660E">>,
      <<"R", "e", "l", "e", "a", "s", "e", "-", "N", "o", "t", "e", "s">>>>,  \* line 73: Release-Notes
    <<<<"u5907", "u6CE8">>,
      <<"N", "o", "t", "e", "s">>>>,  \* line 74: Notes
    <<<<"u7B14", "u8BB0">>,
      <<"N", "o", "t", "e", "s">>>>,  \* line 75: Notes
    <<<<"u603B", "u7ED3">>,
      <<"S", "u", "m", "m", "a", "r", "y">>>>,  \* line 76: Summary
    <<<<"u6458", "u8981">>,
      <<"S", "u", "m", "m", "a", "r", "y">>>>,  \* line 77: Summary
    <<<<"u80CC", "u666F">>,
      <<"B", "a", "c", "k", "g", "r", "o", "u", "n", "d">>>>,  \* line 78: Background
    <<<<"u5386", "u53F2">>,
      <<"H", "i", "s", "t", "o", "r", "y">>>>,  \* line 79: History
    <<<<"u5BF9", "u6BD4">>,
      <<"C", "o", "m", "p", "a", "r", "i", "s", "o", "n">>>>,  \* line 80: Comparison
    <<<<"u6BD4", "u8F83">>,
      <<"C", "o", "m", "p", "a", "r", "i", "s", "o", "n">>>>,  \* line 81: Comparison
    <<<<"u529F", "u80FD">>,
      <<"F", "e", "a", "t", "u", "r", "e", "s">>>>,  \* line 82: Features
    <<<<"u7279", "u6027">>,
      <<"F", "e", "a", "t", "u", "r", "e", "s">>>>,  \* line 83: Features
    <<<<"u9700", "u6C42">>,
      <<"R", "e", "q", "u", "i", "r", "e", "m", "e", "n", "t", "s">>>>,  \* line 84: Requirements
    <<<<"u4F9D", "u8D56">>,
      <<"D", "e", "p", "e", "n", "d", "e", "n", "c", "i", "e", "s">>>>,  \* line 85: Dependencies
    <<<<"u517C", "u5BB9", "u6027">>,
      <<"C", "o", "m", "p", "a", "t", "i", "b", "i", "l", "i", "t", "y">>>>,  \* line 86: Compatibility
    <<<<"u8FC1", "u79FB">>,
      <<"M", "i", "g", "r", "a", "t", "i", "o", "n">>>>,  \* line 87: Migration
    <<<<"u8FC1", "u79FB", "u6307", "u5357">>,
      <<"M", "i", "g", "r", "a", "t", "i", "o", "n", "-", "G", "u", "i", "d", "e">>>>,  \* line 88: Migration-Guide
    <<<<"u5347", "u7EA7">>,
      <<"U", "p", "g", "r", "a", "d", "e">>>>,  \* line 89: Upgrade
    <<<<"u5347", "u7EA7", "u6307", "u5357">>,
      <<"U", "p", "g", "r", "a", "d", "e", "-", "G", "u", "i", "d", "e">>>>,  \* line 90: Upgrade-Guide
    <<<<"u7F16", "u7A0B">>,
      <<"P", "r", "o", "g", "r", "a", "m", "m", "i", "n", "g">>>>,  \* line 93: Programming
    <<<<"u7F16", "u7A0B", "u5BFC", "u822A">>,
      <<"P", "r", "o", "g", "r", "a", "m", "m", "i", "n", "g", "-", "N", "a", "v", "i", "g", "a", "t", "i", "o", "n">>>>,  \* line 94: Programming-Navigation
    <<<<"u7F16", "u7A0B", "u5B66", "u4E60">>,
      <<"P", "r", "o", "g", "r", "a", "m", "m", "i", "n", "g", "-", "L", "e", "a", "r", "n", "i", "n", "g">>>>,  \* line 95: Programming-Learning
    <<<<"u5B66", "u4E60">>,
      <<"L", "e", "a", "r", "n", "i", "n", "g">>>>,  \* line 96: Learning
    <<<<"u5B66", "u4E60", "u8DEF", "u7EBF">>,
      <<"L", "e", "a", "r", "n", "i", "n", "g", "-", "P", "a", "t", "h">>>>,  \* line 97: Learning-Path
    <<<<"u77E5", "u8BC6">>,
      <<"K", "n", "o", "w", "l", "e", "d", "g", "e">>>>,  \* line 98: Knowledge
    <<<<"u77E5", "u8BC6", "u4F53", "u7CFB">>,
      <<"K", "n", "o", "w", "l", "e", "d", "g", "e", "-", "S", "y", "s", "t", "e", "m">>>>,  \* line 99: Knowledge-System
    <<<<"u77E5", "u8BC6", "u5E93">>,
      <<"K", "n", "o", "w", "l", "e", "d", "g", "e", "-", "B", "a", "s", "e">>>>,  \* line 100: Knowledge-Base
    <<<<"u8D44", "u6E90">>,
      <<"R", "e", "s", "o", "u", "r", "c", "e", "s">>>>,  \* line 101: Resources
    <<<<"u8D44", "u6E90", "u6C47", "u603B">>,
      <<"R", "e", "s", "o", "u", "r", "c", "e", "-", "C", "o", "l", "l", "e", "c", "t", "i", "o", "n">>>>,  \* line 102: Resource-Collection
    <<<<"u5DE5", "u5177">>,
      <<"T", "o", "o", "l", "s">>>>,  \* line 103: Tools
    <<<<"u5DE5", "u5177", "u63A8", "u8350">>,
      <<"R", "e", "c", "o", "m", "m", "e", "n", "d", "e", "d", "-", "T", "o", "o", "l", "s">>>>,  \* line 104: Recommended-Tools
    <<<<"u6846", "u67B6">>,
      <<"F", "r", "a", "m", "e", "w", "o", "r", "k">>>>,  \* line 105: Framework
    <<<<"u5E93">>,
      <<"L", "i", "b", "r", "a", "r", "y">>>>,  \* line 106: Library
    <<<<"u9879", "u76EE">>,
      <<"P", "r", "o", "j", "e", "c", "t">>>>,  \* line 107: Project
    <<<<"u9879", "u76EE", "u4ECB", "u7ECD">>,
      <<"P", "r", "o", "j", "e", "c", "t", "-", "I", "n", "t", "r", "o", "d", "u", "c", "t", "i", "o", "n">>>>,  \* line 108: Project-Introduction
    <<<<"u9879", "u76EE", "u8BF4", "u660E">>,
      <<"P", "r", "o", "j", "e", "c", "t", "-", "D", "e", "s", "c", "r", "i", "p", "t", "i", "o", "n">>>>  \* line 109: Project-Description
>>

\* A character in the range \x00-\x7F
isAscii(c) == Len(c) = 1

\* /[^\x00-\x7F]/.test(str)
containsNonAscii(str) == \E i \in 1..Len(str) : ~isAscii(str[i])

\* FILENAME_MAPPING[name]: the value, or <<>> (falsy, like undefined) when
\* name is no key of the table
lookup(name) ==
    LET hits == {k \in 1..Len(FILENAME_MAPPING) : FILENAME_MAPPING[k][1] = name}
    IN  IF hits = {} THEN <<>>
        ELSE FILENAME_MAPPING[CHOOSE k \in hits : TRUE][2]

\* The loop over Object.entries(FILENAME_MAPPING): the first key, in the
\* order of the table, that name includes is replaced (its first occurrence)
\* and the loop breaks; <<>> when name includes no key
partialMatch(name) ==
    LET hits == {k \in 1..Len(FILENAME_MAPPING) :
                    includes(name, FILENAME_MAPPING[k][1])}
    IN  IF hits = {} THEN <<>>
        ELSE LET k == CHOOSE h \in hits : \A g \in hits : h <= g
             IN  replaceFirst(name, FILENAME_MAPPING[k][1], FILENAME_MAPPING[k][2])

\* s.replace(/[^\x00-\x7F]+/g, '-'): every maximal run of non-ASCII
\* characters becomes one hyphen
RECURSIVE replaceNonAsciiRuns(_)
replaceNonAsciiRuns(s) ==
    IF s = <<>> THEN <<>>
    ELSE IF isAscii(Head(s)) THEN <<Head(s)>> \o replaceNonAsciiRuns(Tail(s))
    ELSE IF Len(s) >= 2 /\ ~isAscii(s[2]) THEN replaceNonAsciiRuns(Tail(s))
    ELSE <<"-">> \o replaceNonAsciiRuns(Tail(s))

\* s.replace(/^-+|-+$/g, ''): the leading and the trailing hyphens go
RECURSIVE trimHyphens(_)
trimHyphens(s) ==
    IF s = <<>> THEN <<>>
    ELSE IF Head(s) = "-" THEN trimHyphens(Tail(s))
    ELSE IF s[Len(s)] = "-" THEN trimHyphens(SubSeq(s, 1, Len(s) - 1))
    ELSE s

\* s.replace(/-+/g, '-'): every run of hyphens becomes one hyphen
RECURSIVE collapseHyphens(_)
collapseHyphens(s) ==
    IF s = <<>> THEN <<>>
    ELSE IF Head(s) = "-" /\ Len(s) >= 2 /\ s[2] = "-"
         THEN collapseHyphens(Tail(s))
         ELSE <<Head(s)>> \o collapseHyphens(Tail(s))

\* The chain of three replaces both fallbacks use
stripNonAscii(s) == collapseHyphens(trimHyphens(replaceNonAsciiRuns(s)))

DOCUMENT == <<"d", "o", "c", "u", "m", "e", "n", "t">>

FOLDER == <<"f", "o", "l", "d", "e", "r">>

\* translateName without the containsNonAscii test on the dictionary result
translateName_keepPartial(nameWithoutExt) ==
    LET exact   == lookup(nameWithoutExt)
        found   == IF exact # <<>> THEN exact ELSE partialMatch(nameWithoutExt)
        stripped == stripNonAscii(nameWithoutExt)
    IN  IF found = <<>>
        THEN IF stripped = <<>> \/ stripped = <<"-">> THEN DOCUMENT ELSE stripped
        ELSE found

\* translatedName for a stem that contains non-ASCII characters
translateName(nameWithoutExt) ==
    LET exact   == lookup(nameWithoutExt)
        found   == IF exact # <<>> THEN exact ELSE partialMatch(nameWithoutExt)
        stripped == stripNonAscii(nameWithoutExt)
    IN  IF found = <<>> \/ containsNonAscii(found)
        THEN IF stripped = <<>> \/ stripped = <<"-">> THEN DOCUMENT ELSE stripped
        ELSE found

\* The callback of parts.map for a directory name
translateDirectory(part) ==
    IF containsNonAscii(part)
    THEN IF lookup(part) # <<>> THEN lookup(part)
         ELSE IF stripNonAscii(part) # <<>> THEN stripNonAscii(part)
         ELSE FOLDER
    ELSE part

\* translateFilename without the early return for an ASCII stem
translateFilename_noEarlyReturn(originalPath) ==
    LET parts          == split(originalPath, "/")
        filename       == parts[Len(parts)]
        lastDotIndex   == lastIndexOf(filename, ".")
        nameWithoutExt == IF lastDotIndex > 0
                          THEN SubSeq(filename, 1, lastDotIndex) ELSE filename
        extension      == IF lastDotIndex > 0
                          THEN SubSeq(filename, lastDotIndex + 1, Len(filename))
                          ELSE <<>>
        newFilename    == translateName(nameWithoutExt) \o extension
        mapped == [index \in 1..Len(parts) |->
                      IF index = Len(parts) THEN newFilename
                      ELSE translateDirectory(parts[index])]
    IN  join(mapped, "/")

translateFilename(originalPath) ==
    LET parts          == split(originalPath, "/")
        filename       == parts[Len(parts)]
        lastDotIndex   == lastIndexOf(filename, ".")
        nameWithoutExt == IF lastDotIndex > 0
                          THEN SubSeq(filename, 1, lastDotIndex) ELSE filename
        extension      == IF lastDotIndex > 0
                          THEN SubSeq(filename, lastDotIndex + 1, Len(filename))
                          ELSE <<>>
    IN  IF ~containsNonAscii(nameWithoutExt) THEN originalPath
        ELSE LET newFilename == translateName(nameWithoutExt) \o extension
                 mapped == [index \in 1..Len(parts) |->
                               IF index = Len(parts) THEN newFilename
                               ELSE translateDirectory(parts[index])]
             IN  join(mapped, "/")

\* getTranslatedPath passing the base language's path through as it is
getTranslatedPath_basePassThrough(sourcePath, targetLang, baseLanguage) ==
    IF targetLang = baseLanguage THEN sourcePath
    ELSE <<"t", "r", "a", "n", "s", "l", "a", "t", "i", "o", "n", "s", "/">>
         \o targetLang \o <<"/">> \o translateFilename(sourcePath)

\* getTranslatedPath translating the file name for the base language too
getTranslatedPath_alwaysTranslate(sourcePath, targetLang, baseLanguage) ==
    <<"t", "r", "a", "n", "s", "l", "a", "t", "i", "o", "n", "s", "/">>
    \o targetLang \o <<"/">> \o translateFilename(sourcePath)

\* `translations/${targetLang}/${translatedPath}`
getTranslatedPath(sourcePath, targetLang, baseLanguage) ==
    LET translatedPath == IF targetLang = baseLanguage THEN sourcePath
                          ELSE translateFilename(sourcePath)
    IN  <<"t", "r", "a", "n", "s", "l", "a", "t", "i", "o", "n", "s", "/">>
        \o targetLang \o <<"/">> \o translatedPath
-----------------------------------------------------------------------------
(* The webhook handler: POST, the delivery cache and the signature check     *)

\* processedDeliveries entries live 60 * 1000 milliseconds
DELIVERY_CACHE_TTL == 60000

\* The number of requests the handler receives
MaxRequests == 2

\* How many times the clock advances by one millisecond
MaxShortTicks == 1

\* How many times the clock advances by DELIVERY_CACHE_TTL
MaxLongTicks == 1

\* The literal of head_commit.message.startsWith: [GitHub Global]
SELF_COMMIT_MARKER == <<"[", "G", "i", "t", "H", "u", "b", " ", "G", "l", "o", "b", "a", "l", "]">>

\* The literal of ref.replace: refs/heads/
REFS_HEADS == <<"r", "e", "f", "s", "/", "h", "e", "a", "d", "s", "/">>

\* SKIP_DIRECTORIES of config/constants.ts
SKIP_DIRECTORIES == <<
    <<"n", "o", "d", "e", "_", "m", "o", "d", "u", "l", "e", "s">>,
    <<".", "g", "i", "t">>,
    <<".", "g", "i", "t", "h", "u", "b">>,
    <<"d", "i", "s", "t">>,
    <<"b", "u", "i", "l", "d">>,
    <<".", "n", "e", "x", "t">>,
    <<"v", "e", "n", "d", "o", "r">>,
    <<"_", "_", "p", "y", "c", "a", "c", "h", "e", "_", "_">>,
    <<"t", "r", "a", "n", "s", "l", "a", "t", "i", "o", "n", "s">>
>>

\* The value GitHub and the deployment share as GITHUB_WEBHOOK_SECRET
SECRET == "s3cret"

\* createHmac('sha256', secret).update(payload).digest('hex'): a digest is
\* determined by the key and the text, and two digests are equal only when
\* both are
Hmac(secret, payload) == <<"hmac-sha256", secret, payload>>

\* getWebhookSecret: the secret, or null where the source throws
getWebhookSecret(env) ==
    IF env = None \/ env[1] = "" THEN None ELSE env

\* verifyWebhookSignature with the prefix test only
verifyWebhookSignature_prefixOnly(payload, signature, secret) ==
    signature # <<>> /\ signature[1] = "sha256="

\* A signature header is <<prefix, hex digest>>; timingSafeEqual throws on
\* buffers of different length, which the source turns into false
verifyWebhookSignature(payload, signature, secret) ==
    IF signature = <<>> \/ signature[1] # "sha256=" THEN FALSE
    ELSE signature = <<"sha256=", Hmac(secret, payload)>>

\* cleanupDeliveryCache with >= in place of >
cleanupDeliveryCache_evictAtExpiry(cache, t) ==
    [id \in {i \in DOMAIN cache : ~(t >= cache[i])} |-> cache[id]]

\* The Map after cleanupDeliveryCache ran at time t
cleanupDeliveryCache(cache, t) ==
    [id \in {i \in DOMAIN cache : ~(t > cache[i])} |-> cache[id]]

\* JavaScript truthiness of a nullable string
truthy(s) == s # None /\ s[1] # ""

Commit(id, message, added, modified, removed) ==
    [id |-> id, message |-> message, added |-> added, modified |-> modified,
     removed |-> removed]

\* A push event of repository 1, whose default branch is main.  GitHub
\* accepts no branch or tag name that begins with refs/, so no default
\* branch does.
Push(ref, commits, head) ==
    [ref |-> ref,
     repository |-> [id |-> 1, default_branch |-> <<"m", "a", "i", "n">>],
     commits |-> commits,
     head_commit |-> Some([id |-> commits[head].id, message |-> commits[head].message])]

DOCS_INTRO_MD == <<"d", "o", "c", "s", "/", "u4ECB", "u7ECD", ".", "m", "d">>

NODE_MODULES_X_MD == <<"n", "o", "d", "e", "_", "m", "o", "d", "u", "l", "e", "s", "/", "x", ".", "m", "d">>

TRANSLATED_INTRO_MD == <<"t", "r", "a", "n", "s", "l", "a", "t", "i", "o", "n", "s", "/", "e", "n", "/", "d", "o", "c", "s", "/", "I", "n", "t", "r", "o", "d", "u", "c", "t", "i", "o", "n", ".", "m", "d">>

GUIDE_MD == <<"g", "u", "i", "d", "e", ".", "m", "d">>

DOCS_SETUP_MD == <<"d", "o", "c", "s", "/", "s", "e", "t", "u", "p", ".", "m", "d">>

UPDATE_DOCS == <<"U", "p", "d", "a", "t", "e", " ", "d", "o", "c", "s">>

\* The request bodies: the name stands for the text, JSONparse gives what
\* JSON.parse(payload) returns for it
Payloads == {"scenarioA", "otherBranch", "tagPush", "selfHead", "selfInner",
             "translationsOnly", "removedOnly", "multiCommit", "notJson"}

\* JSON.parse(payload): the push event, or null where it throws
JSONparse(payload) ==
    CASE payload = "scenarioA" ->
            Some(Push(<<"r", "e", "f", "s", "/", "h", "e", "a", "d", "s", "/", "m", "a", "i", "n">>,
                      <<Commit("c1", UPDATE_DOCS,
                               <<DOCS_INTRO_MD, NODE_MODULES_X_MD>>, <<>>, <<>>)>>, 1))
      [] payload = "otherBranch" ->
            Some(Push(<<"r", "e", "f", "s", "/", "h", "e", "a", "d", "s", "/", "d", "e", "v">>,
                      <<Commit("c1", UPDATE_DOCS, <<DOCS_INTRO_MD>>, <<>>, <<>>)>>, 1))
      [] payload = "tagPush" ->
            Some(Push(<<"r", "e", "f", "s", "/", "t", "a", "g", "s", "/", "m", "a", "i", "n">>,
                      <<Commit("c1", UPDATE_DOCS, <<DOCS_INTRO_MD>>, <<>>, <<>>)>>, 1))
      [] payload = "selfHead" ->
            Some(Push(<<"r", "e", "f", "s", "/", "h", "e", "a", "d", "s", "/", "m", "a", "i", "n">>,
                      <<Commit("c1", UPDATE_DOCS, <<>>, <<DOCS_INTRO_MD>>, <<>>),
                        Commit("c2", <<"[", "G", "i", "t", "H", "u", "b", " ", "G", "l", "o", "b", "a", "l", "]", " ", "A", "d", "d", " ", "t", "r", "a", "n", "s", "l", "a", "t", "i", "o", "n", "s">>,
                               <<TRANSLATED_INTRO_MD>>, <<>>, <<>>)>>, 2))
      [] payload = "selfInner" ->
            Some(Push(<<"r", "e", "f", "s", "/", "h", "e", "a", "d", "s", "/", "m", "a", "i", "n">>,
                      <<Commit("c1", <<"[", "G", "i", "t", "H", "u", "b", " ", "G", "l", "o", "b", "a", "l", "]", " ", "A", "d", "d", " ", "t", "r", "a", "n", "s", "l", "a", "t", "i", "o", "n", "s">>,
                               <<TRANSLATED_INTRO_MD>>, <<>>, <<>>),
                        Commit("c2", UPDATE_DOCS, <<>>, <<DOCS_INTRO_MD>>, <<>>)>>, 2))
      [] payload = "translationsOnly" ->
            Some(Push(<<"r", "e", "f", "s", "/", "h", "e", "a", "d", "s", "/", "m", "a", "i", "n">>,
                      <<Commit("c1", <<"M", "e", "r", "g", "e", " ", "p", "u", "l", "l", " ", "r", "e", "q", "u", "e", "s", "t", " ", "#", "2">>,
                               <<TRANSLATED_INTRO_MD>>, <<TRANSLATED_INTRO_MD>>, <<>>)>>, 1))
      [] payload = "removedOnly" ->
            Some(Push(<<"r", "e", "f", "s", "/", "h", "e", "a", "d", "s", "/", "m", "a", "i", "n">>,
                      <<Commit("c1", UPDATE_DOCS, <<<<"l", "o", "g", "o", ".", "p", "n", "g">>>>, <<>>,
                               <<<<"d", "o", "c", "s", "/", "o", "l", "d", ".", "m", "d">>>>)>>, 1))
      [] payload = "multiCommit" ->
            Some(Push(<<"r", "e", "f", "s", "/", "h", "e", "a", "d", "s", "/", "m", "a", "i", "n">>,
                      <<Commit("c1", UPDATE_DOCS, <<GUIDE_MD>>, <<>>, <<DOCS_SETUP_MD>>),
                        Commit("c2", UPDATE_DOCS, <<GUIDE_MD>>, <<DOCS_INTRO_MD>>, <<>>)>>, 2))
      [] OTHER -> None

\* The signature headers a request for a payload may carry: none, the
\* digest GitHub computes, that digest without its prefix, a digest under
\* another key
Signatures(payload) == {
    None,
    Some(<<"sha256=", Hmac(SECRET, payload)>>),
    Some(<<"", Hmac(SECRET, payload)>>),
    Some(<<"sha256=", Hmac("guess", payload)>>)
}

Requests ==
    UNION {[deliveryId : {None, Some("d1"), Some("d2")},
            signature : Signatures(p),
            event : {"push", "ping"},
            payload : {p}] : p \in Payloads}

Config(autoTranslate, includePaths, excludePaths, targetLanguages) ==
    [autoTranslate |-> autoTranslate, includePaths |-> includePaths,
     excludePaths |-> excludePaths, targetLanguages |-> targetLanguages]

\* What prisma.repository.findFirst may return: null, a repository without
\* config, or one with a config
RepoRows == {
    None,
    Some([id |-> "r1", userId |-> "u1", config |-> None]),
    Some([id |-> "r1", userId |-> "u1",
          config |-> Some(Config(FALSE, None, None, <<<<"e", "n">>, <<"j", "a">>>>))]),
    Some([id |-> "r1", userId |-> "u1",
          config |-> Some(Config(TRUE, None, None, <<<<"e", "n">>, <<"j", "a">>>>))]),
    Some([id |-> "r1", userId |-> "u1",
          config |-> Some(Config(TRUE, None, None, <<>>))])
}

\* NextResponse.json: the HTTP status, the message or error text and, for a
\* created task, its id and files
Json(status, body) ==
    [status |-> status, body |-> body, taskId |-> None, files |-> <<>>]

NoHandler == [pc |-> "idle"]

\* A POST invocation suspended at an await (pc names what it awaits) or
\* finished (pc = "done")
Handler(pc, request, arrivedAt, priorSeen, data, repo, files, taskId, response) ==
    [pc |-> pc, request |-> request, arrivedAt |-> arrivedAt,
     priorSeen |-> priorSeen, data |-> data, repo |-> repo, files |-> files,
     taskId |-> taskId, response |-> response]

\* handler at its next await, or finished with a response
Goto(pc) == [handler EXCEPT !.pc = pc]

Finish(response) == [handler EXCEPT !.pc = "done", !.response = Some(response)]

\* Lines 117-118 with endsWith in place of the replace and the comparison
isDefaultBranch_endsWith(ref, default_branch) == endsWith(ref, default_branch)

\* Lines 117-118: branchName === repository.default_branch
isDefaultBranch(ref, default_branch) ==
    replaceFirst(ref, REFS_HEADS, <<>>) = default_branch

\* Line 124 reading the first commit of the push in place of head_commit
isSelfCommit_firstCommit(data) ==
    startsWith(data.commits[1].message, SELF_COMMIT_MARKER)

\* Line 124: head_commit?.message.startsWith('[GitHub Global]')
isSelfCommit(data) ==
    /\ data.head_commit # None
    /\ startsWith(data.head_commit[1].message, SELF_COMMIT_MARKER)

\* Lines 157-162: the Set of added and modified paths over all commits, in
\* insertion order
RECURSIVE addAll(_, _)
addAll(set, files) ==
    IF files = <<>> THEN set
    ELSE addAll(IF \E i \in 1..Len(set) : set[i] = Head(files)
                THEN set ELSE Append(set, Head(files)),
                Tail(files))

RECURSIVE changedFilesOf(_, _)
changedFilesOf(set, commits) ==
    IF commits = <<>> THEN set
    ELSE changedFilesOf(addAll(addAll(set, Head(commits).added),
                               Head(commits).modified),
                        Tail(commits))

\* Lines 157-162 with the removed paths of each commit added as well
candidateFiles_withRemoved(commits) ==
    changedFilesOf(<<>>, [i \in 1..Len(commits) |->
        [commits[i] EXCEPT !.modified = @ \o commits[i].removed]])

\* Lines 157-171: Array.from(changedFiles), the candidate files of a push
candidateFiles(commits) == changedFilesOf(<<>>, commits)

-----------------------------------------------------------------------------
(* The actions: one per run of POST between two awaits                       *)

\* POST with cleanupDeliveryCache called outside the `if (deliveryId)` block
Receive_sweepUnidentified(req) ==
    /\ handler.pc \in {"idle", "done"}
    /\ received < MaxRequests
    /\ received' = received + 1
    /\ LET id      == req.deliveryId
           swept   == cleanupDeliveryCache(processedDeliveries, now)
           started == Handler("text", req, now,
                              IF truthy(id) /\ id[1] \in DOMAIN firstSeen
                              THEN Some(firstSeen[id[1]]) ELSE None,
                              None, None, <<>>, None, None)
       IN  IF ~truthy(id)
           THEN /\ handler' = started
                /\ processedDeliveries' = swept
                /\ UNCHANGED firstSeen
           ELSE IF id[1] \in DOMAIN swept
           THEN /\ processedDeliveries' = swept
                /\ handler' = [started EXCEPT
                       !.pc = "done",
                       !.response = Some(Json(200, "Duplicate delivery ignored"))]
                /\ UNCHANGED firstSeen
           ELSE /\ processedDeliveries' =
                       [i \in DOMAIN swept \cup {id[1]} |->
                           IF i = id[1] THEN now + DELIVERY_CACHE_TTL ELSE swept[i]]
                /\ firstSeen' =
                       [i \in DOMAIN firstSeen \cup {id[1]} |->
                           IF i = id[1] THEN now ELSE firstSeen[i]]
                /\ handler' = started
    /\ UNCHANGED <<now, secretEnv, tasks, queue, suspended, pureVars, engineVars>>

\* POST with a duplicate hit pushing the expiry of its entry back
Receive_refreshOnHit(req) ==
    /\ handler.pc \in {"idle", "done"}
    /\ received < MaxRequests
    /\ received' = received + 1
    /\ LET id      == req.deliveryId
           swept   == cleanupDeliveryCache(processedDeliveries, now)
           started == Handler("text", req, now,
                              IF truthy(id) /\ id[1] \in DOMAIN firstSeen
                              THEN Some(firstSeen[id[1]]) ELSE None,
                              None, None, <<>>, None, None)
       IN  IF ~truthy(id)
           THEN /\ handler' = started
                /\ UNCHANGED <<processedDeliveries, firstSeen>>
           ELSE IF id[1] \in DOMAIN swept
           THEN /\ processedDeliveries' =
                       [swept EXCEPT ![id[1]] = now + DELIVERY_CACHE_TTL]
                /\ handler' = [started EXCEPT
                       !.pc = "done",
                       !.response = Some(Json(200, "Duplicate delivery ignored"))]
                /\ UNCHANGED firstSeen
           ELSE /\ processedDeliveries' =
                       [i \in DOMAIN swept \cup {id[1]} |->
                           IF i = id[1] THEN now + DELIVERY_CACHE_TTL ELSE swept[i]]
                /\ firstSeen' =
                       [i \in DOMAIN firstSeen \cup {id[1]} |->
                           IF i = id[1] THEN now ELSE firstSeen[i]]
                /\ handler' = started
    /\ UNCHANGED <<now, secretEnv, tasks, queue, suspended, pureVars, engineVars>>

\* POST with the identifier recorded only after the await of line 80: when
\* the invocation is suspended there the Map does not hold it yet
Receive_recordAfterAwait(req) ==
    /\ handler.pc \in {"idle", "done"}
    /\ received < MaxRequests
    /\ received' = received + 1
    /\ LET id      == req.deliveryId
           swept   == cleanupDeliveryCache(processedDeliveries, now)
           started == Handler("text", req, now,
                              IF truthy(id) /\ id[1] \in DOMAIN firstSeen
                              THEN Some(firstSeen[id[1]]) ELSE None,
                              None, None, <<>>, None, None)
       IN  IF ~truthy(id)
           THEN /\ handler' = started
                /\ UNCHANGED <<processedDeliveries, firstSeen>>
           ELSE IF id[1] \in DOMAIN swept
           THEN /\ processedDeliveries' = swept
                /\ handler' = [started EXCEPT
                       !.pc = "done",
                       !.response = Some(Json(200, "Duplicate delivery ignored"))]
                /\ UNCHANGED firstSeen
           ELSE /\ processedDeliveries' = swept
                /\ UNCHANGED firstSeen
                /\ handler' = started
    /\ UNCHANGED <<now, secretEnv, tasks, queue, suspended, pureVars, engineVars>>

\* Lines 62-80: a request arrives; the delivery id is looked up and recorded
Receive(req) ==
    /\ handler.pc \in {"idle", "done"}
    /\ received < MaxRequests
    /\ received' = received + 1
    /\ LET id      == req.deliveryId
           swept   == cleanupDeliveryCache(processedDeliveries, now)
           started == Handler("text", req, now,
                              IF truthy(id) /\ id[1] \in DOMAIN firstSeen
                              THEN Some(firstSeen[id[1]]) ELSE None,
                              None, None, <<>>, None, None)
       IN  IF ~truthy(id)
           THEN /\ handler' = started
                /\ UNCHANGED <<processedDeliveries, firstSeen>>
           ELSE IF id[1] \in DOMAIN swept
           THEN /\ processedDeliveries' = swept
                /\ handler' = [started EXCEPT
                       !.pc = "done",
                       !.response = Some(Json(200, "Duplicate delivery ignored"))]
                /\ UNCHANGED firstSeen
           ELSE /\ processedDeliveries' =
                       [i \in DOMAIN swept \cup {id[1]} |->
                           IF i = id[1] THEN now + DELIVERY_CACHE_TTL ELSE swept[i]]
                /\ firstSeen' =
                       [i \in DOMAIN firstSeen \cup {id[1]} |->
                           IF i = id[1] THEN now ELSE firstSeen[i]]
                /\ handler' = started
    /\ UNCHANGED <<now, secretEnv, tasks, queue, suspended, pureVars, engineVars>>

\* POST with the branch test of lines 116-121 ahead of the event test of
\* lines 107-110
Verify_branchBeforeEvent ==
    /\ handler.pc = "text"
    /\ LET req    == handler.request
           secret == getWebhookSecret(secretEnv)
           data   == JSONparse(req.payload)
       IN  handler' =
             IF req.signature = None \/ req.signature[1] = <<>>
             THEN Finish(Json(401, "Missing signature"))
             ELSE IF secret = None
             THEN Finish(Json(500, "Webhook not configured"))
             ELSE IF ~verifyWebhookSignature(req.payload, req.signature[1], secret[1])
             THEN Finish(Json(401, "Invalid signature"))
             ELSE IF data = None
             THEN Finish(Json(500, "Internal server error"))
             ELSE IF ~isDefaultBranch(data[1].ref, data[1].repository.default_branch)
             THEN Finish(Json(200, "Non-default branch ignored"))
             ELSE IF req.event # "push"
             THEN Finish(Json(200, "Event ignored"))
             ELSE IF isSelfCommit(data[1])
             THEN Finish(Json(200, "Self-commit ignored"))
             ELSE [handler EXCEPT !.pc = "repo", !.data = data]
    /\ UNCHANGED <<now, secretEnv, processedDeliveries, tasks, queue, firstSeen,
                   received, suspended, pureVars, engineVars>>

\* Lines 80-138: the body was read; signature, event type, JSON.parse,
\* branch and self-commit checks, then prisma.repository.findFirst is awaited
Verify ==
    /\ handler.pc = "text"
    /\ LET req    == handler.request
           secret == getWebhookSecret(secretEnv)
           data   == JSONparse(req.payload)
       IN  handler' =
             IF req.signature = None \/ req.signature[1] = <<>>
             THEN Finish(Json(401, "Missing signature"))
             ELSE IF secret = None
             THEN Finish(Json(500, "Webhook not configured"))
             ELSE IF ~verifyWebhookSignature(req.payload, req.signature[1], secret[1])
             THEN Finish(Json(401, "Invalid signature"))
             ELSE IF req.event # "push"
             THEN Finish(Json(200, "Event ignored"))
             ELSE IF data = None
             THEN Finish(Json(500, "Internal server error"))
             ELSE IF ~isDefaultBranch(data[1].ref, data[1].repository.default_branch)
             THEN Finish(Json(200, "Non-default branch ignored"))
             ELSE IF isSelfCommit(data[1])
             THEN Finish(Json(200, "Self-commit ignored"))
             ELSE [handler EXCEPT !.pc = "repo", !.data = data]
    /\ UNCHANGED <<now, secretEnv, processedDeliveries, tasks, queue, firstSeen,
                   received, suspended, pureVars, engineVars>>

\* Lines 132-198: findFirst returned repo; configuration checks, the changed
\* files and their filter, the target languages, then
\* prisma.translationTask.create is awaited and writes the task row
Configure(repo) ==
    /\ handler.pc = "repo"
    /\ LET config == repo[1].config[1]
           filesToTranslate ==
               filterFilesToTranslate(candidateFiles(handler.data[1].commits),
                                      config.includePaths, config.excludePaths)
           taskId == Len(tasks) + 1
       IN  IF repo = None
           THEN handler' = Finish(Json(200, "Repository not imported"))
                /\ UNCHANGED tasks
           ELSE IF repo[1].config = None
           THEN handler' = Finish(Json(200, "Repository not configured"))
                /\ UNCHANGED tasks
           ELSE IF ~config.autoTranslate
           THEN handler' = Finish(Json(200, "Auto-translate disabled"))
                /\ UNCHANGED tasks
           ELSE IF Len(filesToTranslate) = 0
           THEN handler' = Finish(Json(200, "No translatable files changed"))
                /\ UNCHANGED tasks
           ELSE IF Len(config.targetLanguages) = 0
           THEN handler' = Finish(Json(200, "No target languages configured"))
                /\ UNCHANGED tasks
           ELSE /\ tasks' = Append(tasks,
                       [id |-> taskId, userId |-> repo[1].userId,
                        repositoryId |-> repo[1].id,
                        targetLanguages |-> config.targetLanguages,
                        type |-> "INCREMENTAL"])
                /\ handler' = [handler EXCEPT !.pc = "create", !.repo = repo,
                                              !.files = filesToTranslate,
                                              !.taskId = Some(taskId)]
    /\ UNCHANGED <<now, secretEnv, processedDeliveries, queue, firstSeen,
                   received, suspended, pureVars, engineVars>>

\* Lines 200-210: create returned the task; translationQueue.add is called
\* with the job and awaited
Enqueue ==
    /\ handler.pc = "create"
    /\ queue' = Append(queue,
           [taskId |-> handler.taskId[1],
            userId |-> handler.repo[1].userId,
            repositoryId |-> handler.repo[1].id,
            targetLanguages |-> handler.repo[1].config[1].targetLanguages,
            type |-> "INCREMENTAL",
            changedFiles |-> handler.files])
    /\ handler' = Goto("add")
    /\ UNCHANGED <<now, secretEnv, processedDeliveries, tasks, firstSeen,
                   received, suspended, pureVars, engineVars>>

\* Lines 212-217: add returned; the success response
Respond ==
    /\ handler.pc = "add"
    /\ handler' = Finish([status |-> 200, body |-> "Translation task created",
                          taskId |-> handler.taskId, files |-> handler.files])
    /\ UNCHANGED <<now, secretEnv, processedDeliveries, tasks, queue, firstSeen,
                   received, suspended, pureVars, engineVars>>

\* Time passes: by a millisecond, or by the lifetime of a cache entry
TickShort ==
    /\ now % DELIVERY_CACHE_TTL < MaxShortTicks
    /\ now' = now + 1
    /\ UNCHANGED <<secretEnv, processedDeliveries, handler, tasks, queue,
                   firstSeen, received, suspended, pureVars, engineVars>>

TickLong ==
    /\ now \div DELIVERY_CACHE_TTL < MaxLongTicks
    /\ now' = now + DELIVERY_CACHE_TTL
    /\ UNCHANGED <<secretEnv, processedDeliveries, handler, tasks, queue,
                   firstSeen, received, suspended, pureVars, engineVars>>

\* The pure-function check at rest, while the webhook handler runs
PureParked ==
    /\ input = <<>>
    /\ output = <<>>
    /\ stage = "none"

\* No job with units in flight
NoExecution == [branch |-> "none", pc |-> <<>>, calls |-> <<>>]

\* The queue before any add: nothing submitted, nothing running
QueueIdle ==
    /\ submitters = [p \in {"webhook", "onDemand"} |-> [pc |-> "idle"]]
    /\ progress = <<>>
    /\ active = <<>>
    /\ addOrder = <<>>
    /\ startOrder = <<>>
    /\ writes = <<>>
    /\ outcomes = <<>>
    /\ execution = NoExecution

Init ==
    /\ now = 0
    /\ secretEnv \in {None, Some(SECRET)}
    /\ processedDeliveries = <<>>
    /\ handler = NoHandler
    /\ tasks = <<>>
    /\ queue = <<>>
    /\ firstSeen = <<>>
    /\ received = 0
    /\ suspended = <<>>
    /\ PureParked
    /\ QueueIdle

Next ==
    \/ \E req \in Requests : Receive(req)
    \/ Verify
    \/ \E repo \in RepoRows : Configure(repo)
    \/ Enqueue
    \/ Respond
    \/ TickShort
    \/ TickLong

Spec == Init /\ [][Next]_vars

-----------------------------------------------------------------------------
(* Concurrent requests: POST is an async function, and while one invocation *)
(* waits at an await (lines 80, 132, 191, 203) the runtime runs another     *)

\* How many invocations wait at an await while another one runs
MaxSuspended == 1

\* The requests of the concurrent handler: with or without identifier,
\* signed or not, with or without a file to translate
ConcurrentRequests ==
    {req \in Requests :
        /\ req.event = "push"
        /\ req.payload \in {"scenarioA", "removedOnly"}
        /\ req.signature \in {None, Some(<<"sha256=", Hmac(SECRET, req.payload)>>)}}

\* The running invocation reached an await and the runtime takes up a new
\* request
Park ==
    /\ handler.pc \notin {"idle", "done"}
    /\ Len(suspended) < MaxSuspended
    /\ suspended' = Append(suspended, handler)
    /\ handler' = NoHandler
    /\ UNCHANGED <<now, secretEnv, processedDeliveries, tasks, queue, firstSeen,
                   received, pureVars, engineVars>>

\* The running invocation returned; a waiting one goes on
Resume(i) ==
    /\ handler.pc \in {"idle", "done"}
    /\ i \in 1..Len(suspended)
    /\ handler' = suspended[i]
    /\ suspended' = SubSeq(suspended, 1, i - 1)
                        \o SubSeq(suspended, i + 1, Len(suspended))
    /\ UNCHANGED <<now, secretEnv, processedDeliveries, tasks, queue, firstSeen,
                   received, pureVars, engineVars>>

\* The running invocation reached an await; a waiting one goes on
Switch(i) ==
    /\ handler.pc \notin {"idle", "done"}
    /\ i \in 1..Len(suspended)
    /\ handler' = suspended[i]
    /\ suspended' = [suspended EXCEPT ![i] = handler]
    /\ UNCHANGED <<now, secretEnv, processedDeliveries, tasks, queue, firstSeen,
                   received, pureVars, engineVars>>

NextConcurrent ==
    \/ \E req \in ConcurrentRequests : Receive(req)
    \/ Verify
    \/ \E repo \in RepoRows : Configure(repo)
    \/ Enqueue
    \/ Respond
    \/ TickShort
    \/ TickLong
    \/ Park
    \/ \E i \in 1..MaxSuspended : Resume(i)
    \/ \E i \in 1..MaxSuspended : Switch(i)

SpecConcurrent == Init /\ [][NextConcurrent]_vars

-----------------------------------------------------------------------------
(* The pure functions, each applied to inputs drawn from bounded sets        *)

\* The longest path, in characters, translateFilename is applied to
MaxPathLen == 4

\* The longest list of files filterFilesToTranslate is applied to
MaxFiles == 2

\* The longest include or exclude list
MaxPatterns == 1

\* The longest file stem getTranslatedPath is applied to
MaxStemLen == 2

\* "a" stands for the letters and digits; U+4ECB U+7ECD is a key of
\* FILENAME_MAPPING (line 12), U+5E93 is one (line 106), U+4ECB alone is none
PathChars == {"a", ".", "/", "-", "u4ECB", "u7ECD", "u5E93"}

SeqsUpTo(S, n) == UNION {[1..k -> S] : k \in 0..n}

FilterFiles == {
    <<"g", "u", "i", "d", "e", ".", "m", "d">>,                          \* guide.md
    <<"d", "o", "c", "s", "/", "s", "e", "t", "u", "p", ".", "m", "d">>, \* docs/setup.md
    <<"d", "o", "c", "s", "/", "a", "/", "b", ".", "m", "d", "x">>,      \* docs/a/b.mdx
    <<"d", "o", "c", "s", "/", "s", "e", "t", "u", "p", ".", "M", "D">>, \* docs/setup.MD
    <<"g", "u", "i", "d", "e", ".", "t", "x", "t">>,                     \* guide.txt
    <<"t", "r", "a", "n", "s", "l", "a", "t", "i", "o", "n", "s", "/",
      "e", "n", "/", "g", "u", "i", "d", "e", ".", "m", "d">>,           \* translations/en/guide.md
    <<"t", "r", "a", "n", "s", "l", "a", "t", "i", "o", "n", "s", ".", "m", "d">>,  \* translations.md
    <<"n", "o", "d", "e", "_", "m", "o", "d", "u", "l", "e", "s", "/", "x", ".", "m", "d">> \* node_modules/x.md
}

FilterPatterns == {
    <<"d", "o", "c", "s", "/", "*", "*">>,   \* docs/**
    <<"d", "o", "c", "s", "/", "*">>,        \* docs/*
    <<"*", ".", "m", "d">>                   \* *.md
}

\* A nullable list of at most n patterns
PatternLists(n) == {None} \cup {Some(l) : l \in SeqsUpTo(FilterPatterns, n)}

Languages == {<<"e", "n">>, <<"j", "a">>}

\* The include/exclude lists getTranslatedPath's result is filtered under
PathPatternLists == {
    None,
    Some(<<>>),
    Some(<< <<"*", "*">> >>),                              \* **
    Some(<< <<"*", "*", "/", "*", ".", "m", "d">> >>),     \* **/*.md
    Some(<< <<"t", "r", "a", "n", "s", "l", "a", "t", "i", "o", "n", "s", "/", "*", "*">> >>)  \* translations/**
}

\* The webhook side at rest, while a pure function is checked
WebhookParked ==
    /\ now = 0
    /\ secretEnv = None
    /\ processedDeliveries = <<>>
    /\ handler = NoHandler
    /\ tasks = <<>>
    /\ queue = <<>>
    /\ firstSeen = <<>>
    /\ received = 0
    /\ suspended = <<>>

InitFilter ==
    /\ WebhookParked
    /\ QueueIdle
    /\ stage = "filter"
    /\ output = <<>>
    /\ input \in [files : SeqsUpTo(FilterFiles, MaxFiles),
                  includePaths : PatternLists(MaxPatterns),
                  excludePaths : PatternLists(MaxPatterns)]

FilterCall ==
    /\ stage = "filter"
    /\ output' = <<filterFilesToTranslate(input.files, input.includePaths,
                                          input.excludePaths)>>
    /\ stage' = "filtered"
    /\ UNCHANGED <<input, webhookVars, engineVars>>

NextFilter == FilterCall

SpecFilter == InitFilter /\ [][NextFilter]_vars

\* How long the paths and patterns given to matchPath are
MaxGlobLen == 3

\* The characters of the patterns and of the paths given to matchPath
PatternChars == {"a", ".", "*", "/"}

MatchPathChars == {"a", "b", ".", "/"}

InitMatch ==
    /\ WebhookParked
    /\ QueueIdle
    /\ stage = "match"
    /\ output = <<>>
    /\ input \in [path : SeqsUpTo(MatchPathChars, MaxGlobLen),
                  pattern : SeqsUpTo(PatternChars, MaxGlobLen)]

MatchCall ==
    /\ stage = "match"
    /\ output' = <<matchPath(input.path, input.pattern)>>
    /\ stage' = "matched"
    /\ UNCHANGED <<input, webhookVars, engineVars>>

NextMatch == MatchCall

SpecMatch == InitMatch /\ [][NextMatch]_vars

InitTranslate ==
    /\ WebhookParked
    /\ QueueIdle
    /\ stage = "translate"
    /\ output = <<>>
    /\ input \in SeqsUpTo(PathChars, MaxPathLen)

TranslateCall ==
    /\ stage = "translate"
    /\ output' = <<translateFilename(input)>>
    /\ stage' = "translated"
    /\ UNCHANGED <<input, webhookVars, engineVars>>

\* translateFilename applied to its own result
TranslateAgain ==
    /\ stage = "translated"
    /\ output' = Append(output, translateFilename(output[1]))
    /\ stage' = "retranslated"
    /\ UNCHANGED <<input, webhookVars, engineVars>>

NextTranslate == TranslateCall \/ TranslateAgain

SpecTranslate == InitTranslate /\ [][NextTranslate]_vars

InitPath ==
    /\ WebhookParked
    /\ QueueIdle
    /\ stage = "path"
    /\ output = <<>>
    /\ input \in [sourcePath : {stem \o MD : stem \in SeqsUpTo(PathChars, MaxStemLen)},
                  targetLang : Languages,
                  baseLanguage : Languages,
                  includePaths : PathPatternLists,
                  excludePaths : PathPatternLists]

PathCall ==
    /\ stage = "path"
    /\ output' = <<getTranslatedPath(input.sourcePath, input.targetLang,
                                     input.baseLanguage)>>
    /\ stage' = "pathed"
    /\ UNCHANGED <<input, webhookVars, engineVars>>

\* The written translation comes back as the changed file of a later push
PathFilterCall ==
    /\ stage = "pathed"
    /\ output' = Append(output, filterFilesToTranslate(<<output[1]>>,
                                    input.includePaths, input.excludePaths))
    /\ stage' = "pathFiltered"
    /\ UNCHANGED <<input, webhookVars, engineVars>>

NextPath == PathCall \/ PathFilterCall

SpecPath == InitPath /\ [][NextPath]_vars
-----------------------------------------------------------------------------
(* Properties of the pure functions                                          *)

\* The four conditions under which a path survives the Path Filter
Survives(file, includePaths, excludePaths) ==
    /\ endsWith(file, MD) \/ endsWith(file, MDX)
    /\ ~startsWith(file, TRANSLATIONS_PREFIX)
    /\ excludePaths = None
        \/ \A k \in 1..Len(excludePaths[1]) : ~matchPath(file, excludePaths[1][k])
    /\ \/ includePaths = None
       \/ includePaths[1] = <<>>
       \/ \E k \in 1..Len(includePaths[1]) : matchPath(file, includePaths[1][k])

\* C5: a path is in the result of filterFilesToTranslate iff it is an input
\* path that ends in .md or .mdx, does not begin with translations/, matches
\* no exclude pattern and, when the include list is not empty, matches an
\* include pattern; the result holds input paths only, in their order.
C5_FilterIff ==
    stage = "filtered" =>
        /\ \A f \in FilterFiles :
              f \in Range(output[1]) <=>
                  /\ f \in Range(input.files)
                  /\ Survives(f, input.includePaths, input.excludePaths)
        /\ Range(output[1]) \subseteq Range(input.files)
        /\ Len(output[1]) <= Len(input.files)

\* C5 witness: a file that matches an include and an exclude pattern was
\* filtered and is not in the result
C5_Witness ==
    /\ stage = "filtered"
    /\ input.includePaths # None
    /\ input.excludePaths # None
    /\ \E f \in Range(input.files) :
          /\ endsWith(f, MD)
          /\ somePattern(input.includePaths[1], f)
          /\ somePattern(input.excludePaths[1], f)
          /\ f \notin Range(output[1])

\* Whether pattern[i..] matches exactly path[j..] when * stands for a run
\* of characters other than / and every other character for itself
RECURSIVE globFrom(_, _, _, _)
globFrom(pattern, i, path, j) ==
    IF i > Len(pattern) THEN j > Len(path)
    ELSE IF pattern[i] = "*"
         THEN \/ globFrom(pattern, i + 1, path, j)
              \/ /\ j <= Len(path)
                 /\ path[j] # "/"
                 /\ globFrom(pattern, i, path, j + 1)
         ELSE /\ j <= Len(path)
              /\ path[j] = pattern[i]
              /\ globFrom(pattern, i + 1, path, j + 1)

\* Whether a pattern holds ** somewhere
HasDoubleStar(pattern) ==
    \E i \in 1..(Len(pattern) - 1) : pattern[i] = "*" /\ pattern[i + 1] = "*"

\* C27: for a pattern without **, matchPath holds exactly when the whole
\* path matches the whole pattern with each * standing for a run of
\* characters that holds no /, and each other character of the pattern, the
\* dot included, standing for itself.
C27_SingleStarDotAnchored ==
    (stage = "matched" /\ ~HasDoubleStar(input.pattern))
    => output[1] = globFrom(input.pattern, 1, input.path, 1)

\* C27 witness: *.a was matched against /.a, and does not match it
C27_Witness ==
    /\ stage = "matched"
    /\ input.pattern = <<"*", ".", "a">>
    /\ input.path = <<"/", ".", "a">>
    /\ output = <<FALSE>>

\* C6: with includePaths = ["docs/**"], a push that modifies guide.md and
\* docs/setup.md leaves exactly docs/setup.md after filtering.
C6_DoubleStarScenario ==
    ( /\ stage = "filtered"
      /\ input.files = <<GUIDE_MD, DOCS_SETUP_MD>>
      /\ input.includePaths = Some(<< <<"d", "o", "c", "s", "/", "*", "*">> >>)
      /\ input.excludePaths = None )
    => output[1] = <<DOCS_SETUP_MD>>

\* C8: the path getTranslatedPath returns begins with translations/, and the
\* Path Filter removes it under every include/exclude configuration.
C8_OutputNeverInput ==
    /\ stage \in {"pathed", "pathFiltered"} =>
          startsWith(output[1], TRANSLATIONS_PREFIX)
    /\ stage = "pathFiltered" => output[2] = <<>>

\* C8 witness: the target path of a base-language unit, whose source path is
\* a Markdown file, went through a filter that restricts nothing
C8_Witness ==
    /\ stage = "pathFiltered"
    /\ input.targetLang = input.baseLanguage
    /\ containsNonAscii(input.sourcePath)
    /\ input.includePaths = None
    /\ input.excludePaths = None
    /\ endsWith(output[1], input.sourcePath)

\* C9: translateFilename returns a path of 7-bit ASCII characters unchanged.
C9_AsciiIdentity ==
    (stage # "translate" /\ ~containsNonAscii(input)) => output[1] = input

\* C9 witness: an ASCII path with a directory, a dot and a hyphen was
\* translated
C9_Witness ==
    /\ stage = "translated"
    /\ ~containsNonAscii(input)
    /\ {"/", ".", "-"} \subseteq Range(input)

\* C10: translateFilename applied to its own result returns that result.
C10_Idempotent ==
    stage = "retranslated" => output[2] = output[1]

\* C10 witness: a path that translateFilename changed, and whose result still
\* holds a non-ASCII character, was translated twice
C10_Witness ==
    /\ stage = "retranslated"
    /\ output[1] # input
    /\ containsNonAscii(output[1])

\* The directory names of a path
DirectoriesOf(path) ==
    LET parts == split(path, "/")
    IN  {parts[i] : i \in 1..(Len(parts) - 1)}

\* The last segment of a path without its extension
StemOf(path) ==
    LET parts        == split(path, "/")
        filename     == parts[Len(parts)]
        lastDotIndex == lastIndexOf(filename, ".")
    IN  IF lastDotIndex > 0 THEN SubSeq(filename, 1, lastDotIndex) ELSE filename

\* C11: every directory name and the filename stem of the path that
\* translateFilename returns are ASCII-only, whether or not the filename of
\* the input is ASCII.
C11_SegmentsAscii ==
    stage \in {"translated", "retranslated"} =>
        /\ \A dir \in DirectoriesOf(output[1]) : ~containsNonAscii(dir)
        /\ ~containsNonAscii(StemOf(output[1]))

\* C28: for a path whose stem holds a non-ASCII character, is no dictionary
\* key and includes one, the stem of the result is the stem with the key
\* replaced by its English slug and the rest kept, whatever the rest holds.
C28_PartialMatchKeepsRemainder ==
    ( /\ stage \in {"translated", "retranslated"}
      /\ containsNonAscii(StemOf(input))
      /\ lookup(StemOf(input)) = <<>>
      /\ \E k \in 1..Len(FILENAME_MAPPING) :
            includes(StemOf(input), FILENAME_MAPPING[k][1]) )
    => \E k \in 1..Len(FILENAME_MAPPING) :
          /\ includes(StemOf(input), FILENAME_MAPPING[k][1])
          /\ StemOf(output[1])
                 = replaceFirst(StemOf(input), FILENAME_MAPPING[k][1],
                                FILENAME_MAPPING[k][2])

\* The reserved prefix followed by the language and a path
UnderLanguage(targetLang, path) ==
    TRANSLATIONS_PREFIX \o targetLang \o <<"/">> \o path

\* C12 as stated: the target path is translations/<targetLang>/ followed by
\* the transliterated source path for a language other than the base
\* language, and the source path itself for the base language.
C12_Original ==
    stage \in {"pathed", "pathFiltered"} =>
        output[1] = IF input.targetLang # input.baseLanguage
                    THEN UnderLanguage(input.targetLang,
                                       translateFilename(input.sourcePath))
                    ELSE input.sourcePath

\* C12 (amended): the target path is translations/<targetLang>/ followed by
\* the result of translateFilename on the source path for a language other
\* than the base language, and translations/<targetLang>/ followed by the
\* source path as it is for the base language.
C12_TargetPath ==
    stage \in {"pathed", "pathFiltered"} =>
        output[1] = IF input.targetLang # input.baseLanguage
                    THEN UnderLanguage(input.targetLang,
                                       translateFilename(input.sourcePath))
                    ELSE UnderLanguage(input.targetLang, input.sourcePath)

\* C12 witness: a source path that translateFilename changes got its target
\* path for the base language
C12_Witness ==
    /\ stage = "pathed"
    /\ input.targetLang = input.baseLanguage
    /\ translateFilename(input.sourcePath) # input.sourcePath
    /\ output[1] = UnderLanguage(input.baseLanguage, input.sourcePath)
\* The source paths getTranslatedPath is given
SourcePaths == {stem \o MD : stem \in SeqsUpTo(PathChars, MaxStemLen)}

\* C30: for the same target and base language, no source path other than
\* the one given has the target path that getTranslatedPath returned.
C30_TargetPathInjective ==
    stage \in {"pathed", "pathFiltered"} =>
        \A other \in SourcePaths :
            other # input.sourcePath
            => getTranslatedPath(other, input.targetLang, input.baseLanguage)
                   # output[1]
-----------------------------------------------------------------------------
(* Properties of the webhook handler                                         *)

DuplicateResponse == Some(Json(200, "Duplicate delivery ignored"))

\* The handler has not gone past its signature and payload checks, and has
\* written no task row and queued no job
CreatedNothing ==
    /\ handler.pc \in {"text", "done"}
    /\ handler.taskId = None
    /\ \A i \in 1..Len(queue) : queue[i].taskId \in {tasks[k].id : k \in 1..Len(tasks)}

\* The push event of the request in the handler; null when the body is no JSON
Parsed == JSONparse(handler.request.payload)

\* C1: a delivery whose identifier was recorded by an earlier delivery at
\* most DELIVERY_CACHE_TTL before it is answered as a duplicate and creates
\* no task; a delivery whose identifier was never seen is not.
C1_DuplicateSkipped ==
    (handler.pc # "idle" /\ truthy(handler.request.deliveryId)) =>
        /\ ( /\ handler.priorSeen # None
             /\ handler.arrivedAt - handler.priorSeen[1] <= DELIVERY_CACHE_TTL )
           => ( /\ handler.pc = "done"
                /\ handler.response = DuplicateResponse
                /\ handler.taskId = None )
        /\ handler.priorSeen = None => handler.response # DuplicateResponse

\* C1 witness: the first delivery of an identifier created a task, and the
\* second one, arriving exactly DELIVERY_CACHE_TTL later, was answered as a
\* duplicate: one task, one job
C1_Witness ==
    /\ handler.pc = "done"
    /\ handler.response = DuplicateResponse
    /\ handler.priorSeen = Some(0)
    /\ handler.arrivedAt = DELIVERY_CACHE_TTL
    /\ Len(tasks) = 1
    /\ Len(queue) = 1

SignatureMissing == handler.request.signature = None

SignatureUnprefixed ==
    /\ handler.request.signature # None
    /\ handler.request.signature[1][1] # "sha256="

\* The header is not "sha256=" followed by the digest of the body under the
\* configured secret
SignatureMismatch ==
    /\ handler.request.signature # None
    /\ secretEnv # None
    /\ handler.request.signature[1]
           # <<"sha256=", Hmac(secretEnv[1], handler.request.payload)>>

\* C2 as stated: a request with a missing, unprefixed or wrong signature is
\* answered 401 and creates nothing, and every request is answered 500 and
\* creates nothing while the secret is not configured.
C2_Original ==
    handler.pc = "done" =>
        /\ ( /\ secretEnv # None
             /\ SignatureMissing \/ SignatureUnprefixed \/ SignatureMismatch )
           => (handler.response[1].status = 401 /\ handler.taskId = None)
        /\ secretEnv = None
           => (handler.response[1].status = 500 /\ handler.taskId = None)

\* C2 (amended): a request with a missing, unprefixed or wrong signature, or
\* one that arrives while the secret is not configured, never creates a task
\* or a job; unless it is answered as a duplicate delivery, it is answered
\* 401 when the signature header is missing (secret configured or not), 500
\* when the header is present and the secret is not configured, and 401 when
\* the header does not verify under the configured secret.
C2_Unauthorized ==
    handler.pc # "idle" =>
        /\ (SignatureMissing \/ SignatureUnprefixed \/ SignatureMismatch
                \/ secretEnv = None)
           => CreatedNothing
        /\ (handler.pc = "done" /\ handler.response # DuplicateResponse) =>
              /\ SignatureMissing => handler.response[1].status = 401
              /\ (~SignatureMissing /\ secretEnv = None)
                 => handler.response[1].status = 500
              /\ (secretEnv # None /\ (SignatureUnprefixed \/ SignatureMismatch))
                 => handler.response[1].status = 401

\* C2 witness: a push that would create a task, signed under another key,
\* was answered 401
C2_Witness ==
    /\ handler.pc = "done"
    /\ secretEnv # None
    /\ handler.request.payload = "scenarioA"
    /\ handler.request.event = "push"
    /\ handler.request.signature = Some(<<"sha256=", Hmac("guess", "scenarioA")>>)
    /\ handler.response = Some(Json(401, "Invalid signature"))
    /\ tasks = <<>>

\* C3 as stated: no task is created for a push one of whose commits, whichever
\* it is, has a message that starts with the marker.
C3_Original ==
    ( /\ handler.pc # "idle"
      /\ Parsed # None
      /\ \E i \in 1..Len(Parsed[1].commits) :
            startsWith(Parsed[1].commits[i].message, SELF_COMMIT_MARKER) )
    => handler.taskId = None

\* C3 (amended): no task is created and no job is queued for a push whose
\* head commit has a message that starts with the marker, even if commits of
\* the push changed eligible files.
C3_HeadSelfCommit ==
    ( /\ handler.pc # "idle"
      /\ Parsed # None
      /\ Parsed[1].head_commit # None
      /\ startsWith(Parsed[1].head_commit[1].message, SELF_COMMIT_MARKER) )
    => CreatedNothing

\* C3 witness: a verified push to the default branch whose head commit
\* carries the marker, and whose first commit changed an eligible file, was
\* answered as a self-commit
C3_Witness ==
    /\ handler.pc = "done"
    /\ handler.request.payload = "selfHead"
    /\ filterFilesToTranslate(changedFilesOf(<<>>, Parsed[1].commits), None, None) # <<>>
    /\ handler.response = Some(Json(200, "Self-commit ignored"))

\* The ref with its refs/heads/ prefix removed
BranchOf(ref) ==
    IF startsWith(ref, REFS_HEADS)
    THEN SubSeq(ref, Len(REFS_HEADS) + 1, Len(ref))
    ELSE ref

\* C4: no task is created and no job is queued for a push whose branch, the
\* ref without its refs/heads/ prefix, is not the repository's default branch.
C4_NonDefaultBranch ==
    ( /\ handler.pc # "idle"
      /\ Parsed # None
      /\ BranchOf(Parsed[1].ref) # Parsed[1].repository.default_branch )
    => CreatedNothing

\* C4 witness: a verified push to another branch was answered as such
C4_Witness ==
    /\ handler.pc = "done"
    /\ handler.request.payload = "otherBranch"
    /\ handler.response = Some(Json(200, "Non-default branch ignored"))

\* Whether a path lies under one of SKIP_DIRECTORIES
UnderSkipDirectory(file) ==
    LET parts == split(file, "/")
    IN  \E i \in 1..(Len(parts) - 1) :
            \E k \in 1..Len(SKIP_DIRECTORIES) : parts[i] = SKIP_DIRECTORIES[k]

\* C7: no queued job holds a path under a skip directory; the push that adds
\* docs/U+4ECB U+7ECD.md and node_modules/x.md queues the first file only.
C7_SkipDirectoryNeverQueued ==
    \A i \in 1..Len(queue) :
        /\ \A f \in Range(queue[i].changedFiles) : ~UnderSkipDirectory(f)
        /\ (handler.pc = "add" /\ handler.request.payload = "scenarioA"
              /\ i = Len(queue))
           => queue[i].changedFiles = <<DOCS_INTRO_MD>>

\* C20: a request without delivery identifier is never answered as a
\* duplicate; on its arrival the handler goes on to read the body and check
\* the signature, and the delivery cache stays as it was.
C20_NoIdentifierNoDedup ==
    /\ [](( /\ handler.pc # "idle"
            /\ ~truthy(handler.request.deliveryId) )
          => handler.response # DuplicateResponse)
    /\ [][( /\ received' # received
            /\ ~truthy(handler'.request.deliveryId) )
          => ( /\ handler'.pc = "text"
               /\ handler'.response = None
               /\ processedDeliveries' = processedDeliveries )]_vars

\* C20 witness: a request without identifier arrived after a recorded
\* identifier had expired, and the expired entry is still in the cache
C20_Witness ==
    /\ handler.pc = "text"
    /\ handler.request.deliveryId = None
    /\ received = 2
    /\ \E id \in DOMAIN processedDeliveries : now > processedDeliveries[id]
\* The paths a push adds or modifies, and the paths it removes
AddedOrModified(commits) ==
    UNION {Range(commits[i].added) \cup Range(commits[i].modified) :
              i \in 1..Len(commits)}

Removed(commits) == UNION {Range(commits[i].removed) : i \in 1..Len(commits)}

\* C21: for a push that passed the branch and self-commit checks, the
\* candidate files are exactly the added and modified paths of its commits;
\* the files kept for the job and the job that is queued hold none but
\* these, so no path that is only removed.
C21_CandidatesAddedOrModified ==
    (handler.pc \in {"repo", "create", "add", "done"} /\ handler.data # None)
    => LET commits == handler.data[1].commits
       IN  /\ Range(candidateFiles(commits)) = AddedOrModified(commits)
           /\ Range(handler.files) \subseteq AddedOrModified(commits)
           /\ handler.pc = "add"
              => Range(queue[Len(queue)].changedFiles)
                     \subseteq AddedOrModified(commits)
           /\ \A f \in Removed(commits) \ AddedOrModified(commits) :
                 f \notin Range(handler.files)

\* C21 witness: the push of two commits that adds guide.md twice, modifies
\* docs/U+4ECB U+7ECD.md and removes docs/setup.md is queued with the first
\* two files
C21_Witness ==
    /\ handler.pc = "add"
    /\ handler.request.payload = "multiCommit"
    /\ DOCS_SETUP_MD \in Removed(handler.data[1].commits)
    /\ queue[Len(queue)].changedFiles = <<GUIDE_MD, DOCS_INTRO_MD>>
\* One test of POST: whether it stops the request, and the response if so
Check(failed, response) == [failed |-> failed, response |-> response]

\* The tests POST makes on the request alone, each taken by itself
RequestChecks(req, env) ==
    LET secret == getWebhookSecret(env)
        data   == JSONparse(req.payload)
    IN  <<Check(req.signature = None \/ req.signature[1] = <<>>,
                Json(401, "Missing signature")),
          Check(secret = None, Json(500, "Webhook not configured")),
          Check(\/ req.signature = None
                \/ secret = None
                \/ ~verifyWebhookSignature(req.payload, req.signature[1], secret[1]),
                Json(401, "Invalid signature")),
          Check(req.event # "push", Json(200, "Event ignored")),
          Check(data = None, Json(500, "Internal server error")),
          Check(/\ data # None
                /\ BranchOf(data[1].ref) # data[1].repository.default_branch,
                Json(200, "Non-default branch ignored")),
          Check(/\ data # None
                /\ data[1].head_commit # None
                /\ startsWith(data[1].head_commit[1].message, SELF_COMMIT_MARKER),
                Json(200, "Self-commit ignored"))>>

\* The tests POST makes with the stored repository, each taken by itself
RepositoryChecks(data, repo) ==
    LET configured == repo # None /\ repo[1].config # None
    IN  <<Check(repo = None, Json(200, "Repository not imported")),
          Check(repo # None /\ repo[1].config = None,
                Json(200, "Repository not configured")),
          Check(configured /\ ~repo[1].config[1].autoTranslate,
                Json(200, "Auto-translate disabled")),
          Check(/\ configured
                /\ \A f \in AddedOrModified(data.commits) :
                      ~Survives(f, repo[1].config[1].includePaths,
                                repo[1].config[1].excludePaths),
                Json(200, "No translatable files changed")),
          Check(configured /\ repo[1].config[1].targetLanguages = <<>>,
                Json(200, "No target languages configured"))>>

\* The response of the first test that stops the request, if any does
FirstFailing(checks) ==
    LET failing == {i \in 1..Len(checks) : checks[i].failed}
    IN  IF failing = {} THEN None
        ELSE Some(checks[CHOOSE i \in failing : \A j \in failing : i <= j].response)

InFlight ==
    {suspended[i] : i \in 1..Len(suspended)}
        \cup (IF handler.pc \in {"idle", "done"} THEN {} ELSE {handler})

\* C23 as stated: of the requests handled at the same time, no two with the
\* same delivery identifier have both passed deduplication.
C23_Original ==
    /\ \A h1, h2 \in InFlight :
          (truthy(h1.request.deliveryId)
             /\ h1.request.deliveryId = h2.request.deliveryId)
          => h1 = h2
    /\ \A i, j \in 1..Len(suspended) :
          (truthy(suspended[i].request.deliveryId)
             /\ suspended[i].request.deliveryId = suspended[j].request.deliveryId)
          => i = j

\* C23 (amended): of the requests handled at the same time, two with the
\* same delivery identifier have both passed deduplication only if the
\* later one arrived after the entry of the earlier one had expired, more
\* than DELIVERY_CACHE_TTL after it; and a request whose identifier is that
\* of a waiting invocation with an unexpired entry is answered as a
\* duplicate in the step that receives it.
C23_AtMostOnePassesWithinTtl ==
    /\ [](\A h1, h2 \in InFlight :
            (truthy(h1.request.deliveryId)
               /\ h1.request.deliveryId = h2.request.deliveryId
               /\ h1.arrivedAt <= h2.arrivedAt)
            => (h1 = h2 \/ h2.arrivedAt > h1.arrivedAt + DELIVERY_CACHE_TTL))
    /\ [](\A i, j \in 1..Len(suspended) :
            (truthy(suspended[i].request.deliveryId)
               /\ suspended[i].request.deliveryId = suspended[j].request.deliveryId
               /\ i # j
               /\ suspended[i].arrivedAt <= suspended[j].arrivedAt)
            => suspended[j].arrivedAt
                   > suspended[i].arrivedAt + DELIVERY_CACHE_TTL)
    /\ [][(/\ received' # received
            /\ \E h \in InFlight :
                  /\ truthy(h.request.deliveryId)
                  /\ h.request.deliveryId = handler'.request.deliveryId
                  /\ now <= h.arrivedAt + DELIVERY_CACHE_TTL)
          => handler'.response = DuplicateResponse]_vars

\* C23 witness: while an invocation that passed deduplication waits at an
\* await, a request with the same identifier was answered as a duplicate
C23_Witness ==
    /\ handler.pc = "done"
    /\ handler.response = DuplicateResponse
    /\ \E i \in 1..Len(suspended) :
          /\ suspended[i].request.deliveryId = handler.request.deliveryId
          /\ suspended[i].pc = "text"
\* C24: an entry keeps the expiry it was created with, the time its
\* identifier was recorded plus DELIVERY_CACHE_TTL, until it is evicted; a
\* delivery of a recorded identifier is a duplicate up to that expiry and
\* changes nothing in the entry, and the first delivery after it is accepted
\* and recorded anew; and right after a delivery that supplies an
\* identifier no entry has an expiry before that delivery's time.
C24_EntryNeverUpdated ==
    /\ [](\A id \in DOMAIN processedDeliveries :
            processedDeliveries[id] = firstSeen[id] + DELIVERY_CACHE_TTL)
    /\ [][\A id \in DOMAIN processedDeliveries \cap DOMAIN processedDeliveries' :
            \/ processedDeliveries'[id] = processedDeliveries[id]
            \/ now > processedDeliveries[id]]_vars
    /\ [][(received' # received /\ truthy(handler'.request.deliveryId))
          => LET id == handler'.request.deliveryId[1]
             IN  /\ (id \in DOMAIN firstSeen
                       /\ now <= firstSeen[id] + DELIVERY_CACHE_TTL)
                    => ( /\ handler'.response = DuplicateResponse
                         /\ firstSeen' = firstSeen
                         /\ processedDeliveries'[id]
                                = firstSeen[id] + DELIVERY_CACHE_TTL )
                 /\ (id \in DOMAIN firstSeen
                       /\ now > firstSeen[id] + DELIVERY_CACHE_TTL)
                    => ( /\ handler'.pc = "text"
                         /\ firstSeen'[id] = now
                         /\ processedDeliveries'[id] = now + DELIVERY_CACHE_TTL )
                 /\ \A i \in DOMAIN processedDeliveries' :
                       processedDeliveries'[i] >= now]_vars

\* C24 witness: an identifier recorded at time 0 was delivered again at time
\* DELIVERY_CACHE_TTL; it was rejected and its entry still expires then
C24_Witness ==
    /\ handler.pc = "done"
    /\ handler.response = DuplicateResponse
    /\ handler.arrivedAt = DELIVERY_CACHE_TTL
    /\ handler.priorSeen = Some(0)
    /\ processedDeliveries[handler.request.deliveryId[1]] = DELIVERY_CACHE_TTL
\* C25: a correctly signed push whose payload does not parse is answered
\* with a status of the 4xx class, and writes no task row and queues no job.
C25_MalformedRejected ==
    ( /\ handler.pc = "done"
      /\ handler.response # DuplicateResponse
      /\ secretEnv = Some(SECRET)
      /\ handler.request.signature
             = Some(<<"sha256=", Hmac(SECRET, handler.request.payload)>>)
      /\ handler.request.event = "push"
      /\ Parsed = None )
    => ( /\ handler.response[1].status \in 400..499
         /\ handler.taskId = None )
\* The responses to a request whose signature is missing or wrong, or that
\* arrives while no secret is configured
SignatureRejections ==
    {Some(Json(401, "Missing signature")), Some(Json(401, "Invalid signature")),
     Some(Json(500, "Webhook not configured"))}

\* C29: a request rejected at the signature check has not recorded its
\* delivery identifier: the cache holds no entry made at its arrival.
C29_RejectedNotRecorded ==
    ( /\ handler.pc = "done"
      /\ handler.response \in SignatureRejections
      /\ truthy(handler.request.deliveryId) )
    => ~( /\ handler.request.deliveryId[1] \in DOMAIN processedDeliveries
          /\ processedDeliveries[handler.request.deliveryId[1]]
                 = handler.arrivedAt + DELIVERY_CACHE_TTL )
-----------------------------------------------------------------------------
(* The job queue and the translation engine.  route.ts registers the        *)
(* processor and calls translationQueue.add; the queue and the engine       *)
(* follow sections 3, 4.5, 4.6 and 5 of the design document.                 *)

\* How many jobs are submitted
MaxJobs == 2

Submitters == {"webhook", "onDemand"}

EN == <<"e", "n">>

JA == <<"j", "a">>

\* The base language of the repository
BASE_LANGUAGE == <<"z", "h">>

\* The files of the repository at the tip of its default branch
RepositoryTree ==
    <<GUIDE_MD, DOCS_SETUP_MD, NODE_MODULES_X_MD, TRANSLATED_INTRO_MD>>

\* What a submitter asks for: the kind of job, its languages and, nullable,
\* its changed files.  The webhook submits the files that passed its filter
\* (never none); a client of the on-demand endpoint sends a
\* CreateTranslationTaskRequest, whose type may be INCREMENTAL.
JobRequests(p) ==
    IF p = "webhook"
    THEN {[type |-> "INCREMENTAL", targetLanguages |-> <<EN>>,
           changedFiles |-> Some(<<GUIDE_MD, DOCS_SETUP_MD, DOCS_INTRO_MD>>)],
          [type |-> "INCREMENTAL", targetLanguages |-> <<EN, JA>>,
           changedFiles |-> Some(<<DOCS_INTRO_MD>>)]}
    ELSE {[type |-> "FULL", targetLanguages |-> <<EN>>, changedFiles |-> None],
          [type |-> "INCREMENTAL", targetLanguages |-> <<EN>>,
           changedFiles |-> None],
          [type |-> "INCREMENTAL", targetLanguages |-> <<EN>>,
           changedFiles |-> Some(<<>>)]}

\* The job data handed to translationQueue.add; an absent changedFiles is a
\* property the object does not have
JobData(taskId, request) ==
    IF request.changedFiles = None
    THEN [taskId |-> taskId, userId |-> 1, repositoryId |-> 1,
          targetLanguages |-> request.targetLanguages, type |-> request.type]
    ELSE [taskId |-> taskId, userId |-> 1, repositoryId |-> 1,
          targetLanguages |-> request.targetLanguages, type |-> request.type,
          changedFiles |-> request.changedFiles[1]]

\* The JobProgress of a task that was just created
Pending ==
    [status |-> "PENDING", totalFiles |-> 0, completedFiles |-> 0,
     failedFiles |-> 0, pullRequestUrl |-> None]

\* The function f without its value at k
Without(f, k) == [i \in DOMAIN f \ {k} |-> f[i]]

\* The function f with the value v at k
With(f, k, v) == [i \in DOMAIN f \cup {k} |-> IF i = k THEN v ELSE f[i]]

\* The processor registered by route.ts: which engine entry point runs a job
processor(data) ==
    IF data.type = "INCREMENTAL" /\ "changedFiles" \in DOMAIN data
    THEN "executeIncrementalTranslation"
    ELSE "executeTranslation"

\* The queue dispatching although a job is still running
mayDispatch_whileRunning(running) == TRUE

\* The queue dispatches only while no job is running
mayDispatch(running) == DOMAIN running = {}

\* The queue never leaving a job whose processor failed
release_stuckOnFailure(running, id, status) ==
    IF status = "FAILED" THEN [running EXCEPT ![id].pc = "thrown"]
    ELSE Without(running, id)

\* The queue is done with a job, whichever way its processor ended
release(running, id, status) == Without(running, id)

\* The walk of the repository tree: every Markdown file outside the skip
\* directories and the reserved output directory
walkTree(tree) ==
    LET keep(file) ==
            /\ endsWith(file, MD) \/ endsWith(file, MDX)
            /\ ~startsWith(file, TRANSLATIONS_PREFIX)
            /\ ~UnderSkipDirectory(file)
    IN  SelectSeq(tree, keep)

\* Step 1: the working file set of a job
resolveFiles(engine, data) ==
    IF engine = "executeTranslation"
    THEN walkTree(RepositoryTree)
    ELSE filterFilesToTranslate(data.changedFiles, None, None)

\* Step 2: the units, file by file and language by language
unitsOf(files, targetLanguages) ==
    [k \in 1..(Len(files) * Len(targetLanguages)) |->
        LET file == files[((k - 1) \div Len(targetLanguages)) + 1]
            lang == targetLanguages[((k - 1) % Len(targetLanguages)) + 1]
        IN  [sourcePath |-> file, targetLanguage |-> lang,
             targetPath |-> getTranslatedPath(file, lang, BASE_LANGUAGE)]]

\* Steps 1 and 2 for a job
resolveUnits(engine, data) ==
    unitsOf(resolveFiles(engine, data), data.targetLanguages)

\* Every request a submitter can make
AllRequests == UNION {JobRequests(p) : p \in Submitters}

\* The request a job was made from
RequestOf(data) ==
    [type |-> data.type, targetLanguages |-> data.targetLanguages,
     changedFiles |-> IF "changedFiles" \in DOMAIN data
                      THEN Some(data.changedFiles) ELSE None]

\* resolveUnits, tabulated by engine and request over the jobs that can be
\* submitted (the task id plays no part in it)
ResolvedUnits ==
    [key \in {<<processor(JobData(1, r)), r>> : r \in AllRequests} |->
        resolveUnits(key[1], JobData(1, key[2]))]

\* The engine going on to run a job that has no unit
afterCount_neverReturns(total) == "mark"

\* Step 2: a job without units is complete and the engine returns
afterCount(total) == IF total = 0 THEN "return" ELSE "mark"

\* A failed unit that is not counted
unitFailed_uncounted(p) == p

\* Step 5: a unit failed
unitFailed(p) == [p EXCEPT !.failedFiles = @ + 1]

\* Step 4: a unit was translated and written
unitCompleted(p) == [p EXCEPT !.completedFiles = @ + 1]

\* A pull request only for a job without failed unit
shouldOpenPullRequest_allOrNothing(p) ==
    p.completedFiles > 0 /\ p.failedFiles = 0

\* Step 6: a pull request is opened if at least one file succeeded
shouldOpenPullRequest(p) == p.completedFiles > 0

\* A failing job that still opens its pull request
failed_withPullRequest(p, id) ==
    [p EXCEPT !.status = "FAILED", !.pullRequestUrl = Some(id)]

\* Step 7: an unrecoverable error, the job is FAILED with no pull request
failed(p, id) == [p EXCEPT !.status = "FAILED"]

\* A source-control write of job id, after the writes so far
noteWrite(log, id) ==
    IF log # <<>> /\ log[Len(log)] = id THEN log ELSE Append(log, id)

\* A submitter creates the task row of its job (route.ts lines 191-198 for
\* the webhook)
CreateTask(p, request) ==
    /\ submitters[p].pc = "idle"
    /\ Len(progress) < MaxJobs
    /\ submitters' = [submitters EXCEPT
           ![p] = [pc |-> "created",
                   job |-> JobData(Len(progress) + 1, request)]]
    /\ progress' = Append(progress, Pending)
    /\ outcomes' = Append(outcomes, <<>>)
    /\ UNCHANGED <<execution, active, addOrder, startOrder, writes, webhookVars, pureVars>>

\* translationQueue.add (route.ts lines 203-210 for the webhook): the job
\* joins the pending list and add returns
Add(p) ==
    /\ submitters[p].pc = "created"
    /\ queue' = Append(queue, submitters[p].job)
    /\ addOrder' = Append(addOrder, submitters[p].job.taskId)
    /\ submitters' = [submitters EXCEPT ![p] = [pc |-> "idle"]]
    /\ UNCHANGED <<execution, progress, active, startOrder, writes, outcomes, now,
                   secretEnv, processedDeliveries, handler, tasks, firstSeen,
                   received, suspended, pureVars>>

\* The queue hands the oldest pending job to the processor
Dispatch ==
    /\ mayDispatch(active)
    /\ queue # <<>>
    /\ LET data == Head(queue)
       IN  /\ active' = With(active, data.taskId,
                   [job |-> data, engine |-> processor(data), pc |-> "resolve",
                    units |-> <<>>, next |-> 1])
           /\ startOrder' = Append(startOrder, data.taskId)
    /\ queue' = Tail(queue)
    /\ UNCHANGED <<execution, submitters, progress, addOrder, writes, outcomes, now,
                   secretEnv, processedDeliveries, handler, tasks, firstSeen,
                   received, suspended, pureVars>>

\* Steps 1 and 2: the file set, the units and their count; a job without
\* units is COMPLETED at once
Resolve(id) ==
    /\ id \in DOMAIN active
    /\ active[id].pc = "resolve"
    /\ LET units == ResolvedUnits[<<active[id].engine, RequestOf(active[id].job)>>]
           total == Len(units)
           pc    == afterCount(total)
       IN  /\ progress' = [progress EXCEPT
                  ![id] = IF total = 0
                          THEN [@ EXCEPT !.status = "COMPLETED", !.totalFiles = 0]
                          ELSE [@ EXCEPT !.totalFiles = total]]
           /\ active' = IF pc = "return"
                        THEN release(active, id, "COMPLETED")
                        ELSE [active EXCEPT ![id].units = units, ![id].pc = pc]
    /\ UNCHANGED <<execution, submitters, addOrder, startOrder, writes, outcomes,
                   webhookVars, pureVars>>

\* Step 3
MarkRunning(id) ==
    /\ id \in DOMAIN active
    /\ active[id].pc = "mark"
    /\ progress' = [progress EXCEPT ![id].status = "RUNNING"]
    /\ active' = [active EXCEPT ![id].pc = "units"]
    /\ UNCHANGED <<execution, submitters, addOrder, startOrder, writes, outcomes,
                   webhookVars, pureVars>>

\* Steps 4 and 5: the next unit is read and translated; it is written to the
\* holding branch, or it fails and is counted, and the job goes on
AttemptUnit(id, outcome) ==
    /\ id \in DOMAIN active
    /\ active[id].pc = "units"
    /\ active[id].next <= Len(active[id].units)
    /\ IF outcome = "translated"
       THEN /\ progress' = [progress EXCEPT ![id] = unitCompleted(@)]
            /\ writes' = noteWrite(writes, id)
       ELSE /\ progress' = [progress EXCEPT ![id] = unitFailed(@)]
            /\ UNCHANGED writes
    /\ outcomes' = [outcomes EXCEPT ![id] = Append(@, outcome)]
    /\ active' = [active EXCEPT ![id].next = @ + 1]
    /\ UNCHANGED <<execution, submitters, addOrder, startOrder, webhookVars, pureVars>>

\* Step 6: all units were attempted; the pull request, then COMPLETED
Finalize(id) ==
    /\ id \in DOMAIN active
    /\ active[id].pc = "units"
    /\ active[id].next > Len(active[id].units)
    /\ IF shouldOpenPullRequest(progress[id])
       THEN /\ progress' = [progress EXCEPT ![id].status = "COMPLETED",
                                            ![id].pullRequestUrl = Some(id)]
            /\ writes' = noteWrite(writes, id)
       ELSE /\ progress' = [progress EXCEPT ![id].status = "COMPLETED"]
            /\ UNCHANGED writes
    /\ active' = release(active, id, "COMPLETED")
    /\ UNCHANGED <<execution, submitters, addOrder, startOrder, outcomes, webhookVars,
                   pureVars>>

\* Step 7: before any unit is attempted the engine cannot authenticate or
\* cannot create the holding branch; the queue catches the failure
Fatal(id) ==
    /\ id \in DOMAIN active
    /\ active[id].pc \in {"resolve", "mark", "units"}
    /\ outcomes[id] = <<>>
    /\ progress[id].status \in {"PENDING", "RUNNING"}
    /\ progress' = [progress EXCEPT ![id] = failed(@, id)]
    /\ active' = release(active, id, "FAILED")
    /\ UNCHANGED <<execution, submitters, addOrder, startOrder, writes, outcomes,
                   webhookVars, pureVars>>

\* What the queue's consumer and the engine do
Consumer ==
    \/ Dispatch
    \/ \E id \in 1..MaxJobs :
          \/ Resolve(id)
          \/ MarkRunning(id)
          \/ \E outcome \in {"translated", "failed"} : AttemptUnit(id, outcome)
          \/ Finalize(id)
          \/ Fatal(id)

InitQueue ==
    /\ WebhookParked
    /\ PureParked
    /\ QueueIdle

NextQueue ==
    \/ \E p \in Submitters : \E request \in JobRequests(p) : CreateTask(p, request)
    \/ \E p \in Submitters : Add(p)
    \/ Consumer

SpecQueue == InitQueue /\ [][NextQueue]_vars

\* The queue drains: every network call of the engine returns or fails
SpecQueueFair == InitQueue /\ [][NextQueue]_vars /\ WF_vars(Consumer)
-----------------------------------------------------------------------------
(* The units of one running job, translated with bounded concurrency.  The  *)
(* engine issues the calls in the order of section 4.6 step 4 and section 5 *)
(* of the design document; createBranch and createOrUpdateFile are those of *)
(* src/src/lib/github/operations.ts.                                         *)

\* How many units of a job are in flight at a time
MaxConcurrentUnits == 2

DOCS_INTRODUCTION_MD == <<"d", "o", "c", "s", "/", "I", "n", "t", "r", "o", "d", "u", "c", "t", "i", "o", "n", ".", "m", "d">>

\* The jobs whose units are run: three files for one language, two of them
\* with the same target path; one file for two languages
UnitJobs ==
    {JobData(1, [type |-> "INCREMENTAL", targetLanguages |-> <<EN>>,
                 changedFiles |-> Some(<<DOCS_INTRO_MD, DOCS_INTRODUCTION_MD, GUIDE_MD>>)]),
     JobData(1, [type |-> "INCREMENTAL", targetLanguages |-> <<EN, JA>>,
                 changedFiles |-> Some(<<GUIDE_MD>>)])}

\* The units that are translating, waiting to write or writing
InFlightUnits(exec) ==
    {k \in 1..Len(exec.pc) : exec.pc[k] \in {"translating", "translated", "writing"}}

\* A unit writing although the holding branch is not there yet, or while
\* another unit writes the same path
mayWrite_unordered(exec, units, k) == TRUE

\* A translated unit may write once the holding branch exists and no other
\* unit is writing its target path
mayWrite(exec, units, k) ==
    /\ exec.branch = "created"
    /\ \A other \in 1..Len(units) :
          (other # k /\ exec.pc[other] = "writing")
          => units[other].targetPath # units[k].targetPath

\* The job is dispatched, its units are counted and it is RUNNING
InitUnits ==
    /\ WebhookParked
    /\ PureParked
    /\ submitters = [p \in {"webhook", "onDemand"} |-> [pc |-> "idle"]]
    /\ \E data \in UnitJobs :
          LET engine == processor(data)
              units  == resolveUnits(engine, data)
          IN  /\ active = With(<<>>, 1, [job |-> data, engine |-> engine,
                                         pc |-> "units", units |-> units,
                                         next |-> 1])
              /\ progress = <<[Pending EXCEPT !.status = "RUNNING",
                                              !.totalFiles = Len(units)]>>
              /\ execution = [branch |-> "none",
                              pc |-> [k \in 1..Len(units) |-> "todo"],
                              calls |-> <<>>]
    /\ addOrder = <<1>>
    /\ startOrder = <<1>>
    /\ writes = <<>>
    /\ outcomes = <<<<>>>>

\* Step 4: the engine starts a unit: source read and translate call
StartUnit(k) ==
    /\ k \in 1..Len(execution.pc)
    /\ execution.pc[k] = "todo"
    /\ Cardinality(InFlightUnits(execution)) < MaxConcurrentUnits
    /\ execution' = [execution EXCEPT !.pc[k] = "translating"]
    /\ UNCHANGED <<submitters, progress, active, addOrder, startOrder, writes,
                   outcomes, webhookVars, pureVars>>

\* Step 5: the read or the translation of a unit failed
UnitFails(k) ==
    /\ k \in 1..Len(execution.pc)
    /\ execution.pc[k] = "translating"
    /\ execution' = [execution EXCEPT !.pc[k] = "failed"]
    /\ progress' = [progress EXCEPT ![1] = unitFailed(@)]
    /\ outcomes' = [outcomes EXCEPT ![1] = Append(@, "failed")]
    /\ UNCHANGED <<submitters, active, addOrder, startOrder, writes,
                   webhookVars, pureVars>>

\* Step 4: the translation of a unit returned
UnitTranslated(k) ==
    /\ k \in 1..Len(execution.pc)
    /\ execution.pc[k] = "translating"
    /\ execution' = [execution EXCEPT !.pc[k] = "translated"]
    /\ UNCHANGED <<submitters, progress, active, addOrder, startOrder, writes,
                   outcomes, webhookVars, pureVars>>

\* createBranch is called by the first unit that has something to write;
\* it awaits git.getRef
CallCreateBranch(k) ==
    /\ k \in 1..Len(execution.pc)
    /\ execution.pc[k] = "translated"
    /\ execution.branch = "none"
    /\ execution' = [execution EXCEPT
           !.branch = "getRef",
           !.calls = Append(@, [call |-> "getRef", path |-> <<>>])]
    /\ UNCHANGED <<submitters, progress, active, addOrder, startOrder, writes,
                   outcomes, webhookVars, pureVars>>

\* createBranch: getRef returned the base SHA, git.createRef is awaited
GetRefReturns ==
    /\ execution.branch = "getRef"
    /\ execution' = [execution EXCEPT
           !.branch = "createRef",
           !.calls = Append(@, [call |-> "createRef", path |-> <<>>])]
    /\ UNCHANGED <<submitters, progress, active, addOrder, startOrder, writes,
                   outcomes, webhookVars, pureVars>>

\* createBranch: createRef returned, the holding branch exists
CreateRefReturns ==
    /\ execution.branch = "createRef"
    /\ execution' = [execution EXCEPT !.branch = "created"]
    /\ UNCHANGED <<submitters, progress, active, addOrder, startOrder, writes,
                   outcomes, webhookVars, pureVars>>

\* createOrUpdateFile is called for a unit and awaits
\* repos.createOrUpdateFileContents
BeginWrite(k) ==
    /\ k \in 1..Len(execution.pc)
    /\ execution.pc[k] = "translated"
    /\ mayWrite(execution, active[1].units, k)
    /\ execution' = [execution EXCEPT
           !.pc[k] = "writing",
           !.calls = Append(@, [call |-> "createOrUpdateFile",
                                path |-> active[1].units[k].targetPath])]
    /\ writes' = noteWrite(writes, 1)
    /\ UNCHANGED <<submitters, progress, active, addOrder, startOrder,
                   outcomes, webhookVars, pureVars>>

\* createOrUpdateFile returned: the unit is written and counted
EndWrite(k) ==
    /\ k \in 1..Len(execution.pc)
    /\ execution.pc[k] = "writing"
    /\ execution' = [execution EXCEPT !.pc[k] = "done"]
    /\ progress' = [progress EXCEPT ![1] = unitCompleted(@)]
    /\ outcomes' = [outcomes EXCEPT ![1] = Append(@, "translated")]
    /\ UNCHANGED <<submitters, active, addOrder, startOrder, writes,
                   webhookVars, pureVars>>

\* Step 6: every unit was attempted; the pull request, then COMPLETED
FinalizeUnits ==
    /\ 1 \in DOMAIN active
    /\ \A k \in 1..Len(execution.pc) : execution.pc[k] \in {"done", "failed"}
    /\ IF shouldOpenPullRequest(progress[1])
       THEN /\ progress' = [progress EXCEPT ![1].status = "COMPLETED",
                                            ![1].pullRequestUrl = Some(1)]
            /\ execution' = [execution EXCEPT
                   !.calls = Append(@, [call |-> "pulls.create", path |-> <<>>])]
       ELSE /\ progress' = [progress EXCEPT ![1].status = "COMPLETED"]
            /\ UNCHANGED execution
    /\ active' = release(active, 1, "COMPLETED")
    /\ UNCHANGED <<submitters, addOrder, startOrder, writes, outcomes,
                   webhookVars, pureVars>>

\* How many units a job of UnitJobs has at most
MaxUnits == 3

NextUnits ==
    \/ \E k \in 1..MaxUnits :
          \/ StartUnit(k)
          \/ UnitFails(k)
          \/ UnitTranslated(k)
          \/ CallCreateBranch(k)
          \/ BeginWrite(k)
          \/ EndWrite(k)
    \/ GetRefReturns
    \/ CreateRefReturns
    \/ FinalizeUnits

SpecUnits == InitUnits /\ [][NextUnits]_vars
-----------------------------------------------------------------------------
(* Properties of the job queue and the translation engine                    *)

Terminal == {"COMPLETED", "FAILED"}

\* How many units of a job ended the given way
CountOf(log, outcome) == Cardinality({i \in 1..Len(log) : log[i] = outcome})

\* C13: at no time are two jobs running; jobs are dispatched in the order
\* add received them, each only after every job before it has finished; and
\* the source-control writes of a job are never interleaved with another's.
C13_SerialFifo ==
    /\ Cardinality(DOMAIN active) <= 1
    /\ Len(startOrder) <= Len(addOrder)
    /\ startOrder = SubSeq(addOrder, 1, Len(startOrder))
    /\ \A i \in 1..(Len(startOrder) - 1) :
          /\ progress[startOrder[i]].status \in Terminal
          /\ startOrder[i] \notin DOMAIN active
    /\ \A i, j \in 1..Len(writes) : writes[i] = writes[j] => i = j

\* C13 witness: two submitters interleaved, the task created second was
\* added first; it ran and wrote first, and the other job is now writing
C13_Witness ==
    /\ addOrder = <<2, 1>>
    /\ startOrder = <<2, 1>>
    /\ writes = <<2, 1>>
    /\ 1 \in DOMAIN active

\* C14: every job add received is eventually dispatched, whatever happened
\* to the jobs before it; a job's failure changes its own JobProgress only
\* and reaches neither the submitters nor the pending jobs.
C14_FailureDoesNotStopQueue ==
    /\ \A id \in 1..MaxJobs :
          (id \in Range(addOrder)) ~> (id \in Range(startOrder))
    /\ [][\A id \in DOMAIN progress :
            (progress[id].status # "FAILED" /\ progress'[id].status = "FAILED")
            => ( /\ submitters' = submitters
                 /\ queue' = queue
                 /\ \A other \in DOMAIN progress \ {id} :
                       progress'[other] = progress[other] )]_vars

\* C14 witness: a job failed, and the job submitted after it was dispatched
C14_Witness ==
    /\ Len(startOrder) = 2
    /\ progress[startOrder[1]].status = "FAILED"
    /\ progress[startOrder[2]].status = "RUNNING"

\* C15 as stated: completedFiles + failedFiles never exceeds totalFiles, and
\* equals it once the status is COMPLETED or FAILED.
C15_Original ==
    \A id \in DOMAIN progress :
        /\ progress[id].completedFiles + progress[id].failedFiles
               <= progress[id].totalFiles
        /\ progress[id].status \in Terminal
           => progress[id].completedFiles + progress[id].failedFiles
                  = progress[id].totalFiles

\* C15 (amended): completedFiles + failedFiles never exceeds totalFiles, and
\* equals it once the status is COMPLETED; a FAILED job may have counted
\* fewer than totalFiles.
C15_CountsWithinTotal ==
    \A id \in DOMAIN progress :
        /\ progress[id].completedFiles + progress[id].failedFiles
               <= progress[id].totalFiles
        /\ progress[id].status = "COMPLETED"
           => progress[id].completedFiles + progress[id].failedFiles
                  = progress[id].totalFiles

\* C15 witness: a job of three units is COMPLETED with both counters above 0
C15_Witness ==
    \E id \in DOMAIN progress :
        /\ progress[id].status = "COMPLETED"
        /\ progress[id].totalFiles = 3
        /\ progress[id].completedFiles > 0
        /\ progress[id].failedFiles > 0

\* How far along a status is
Rank(status) ==
    CASE status = "PENDING" -> 0
      [] status = "RUNNING" -> 1
      [] status \in Terminal -> 2

\* C16: the status of a job never moves back towards PENDING, and a
\* COMPLETED or FAILED job keeps its status for ever.
C16_StatusMonotonic ==
    [][\A id \in DOMAIN progress :
          /\ Rank(progress'[id].status) >= Rank(progress[id].status)
          /\ progress[id].status \in Terminal
             => progress'[id].status = progress[id].status]_vars

\* C16 witness: one job went PENDING, RUNNING, COMPLETED and the job after
\* it is RUNNING
C16_Witness ==
    /\ Len(progress) = 2
    /\ Len(startOrder) = 2
    /\ progress[startOrder[1]].status = "COMPLETED"
    /\ progress[startOrder[1]].totalFiles > 0
    /\ progress[startOrder[2]].status = "RUNNING"

\* C17: a job with a failed unit goes on running; a job that attempted a
\* unit ends COMPLETED after attempting all of them, with failedFiles and
\* completedFiles the numbers of failed and of translated units, and with a
\* pull request if a unit succeeded.
C17_UnitFailureDoesNotAbort ==
    \A id \in DOMAIN progress :
        /\ (id \in DOMAIN active /\ outcomes[id] # <<>>)
           => progress[id].status = "RUNNING"
        /\ (outcomes[id] # <<>> /\ progress[id].status \in Terminal)
           => ( /\ progress[id].status = "COMPLETED"
                /\ Len(outcomes[id]) = progress[id].totalFiles
                /\ progress[id].failedFiles = CountOf(outcomes[id], "failed")
                /\ progress[id].completedFiles
                       = CountOf(outcomes[id], "translated")
                /\ progress[id].completedFiles > 0
                   => progress[id].pullRequestUrl # None )

\* C17 witness: the second of three units failed; the job is COMPLETED with
\* two files completed, one failed and a pull request
C17_Witness ==
    \E id \in DOMAIN progress :
        /\ outcomes[id] = <<"translated", "failed", "translated">>
        /\ progress[id].status = "COMPLETED"
        /\ progress[id].completedFiles = 2
        /\ progress[id].failedFiles = 1
        /\ progress[id].pullRequestUrl # None

\* C18: an unrecoverable error before any unit is attempted ends the job
\* FAILED without pull request; a FAILED job has no pull-request reference
\* and made no source-control write.
C18_FailedWithoutPullRequest ==
    /\ [](\A id \in DOMAIN progress :
            progress[id].status = "FAILED"
            => ( /\ progress[id].pullRequestUrl = None
                 /\ id \notin Range(writes) ))
    /\ [][\A id \in DOMAIN active :
            Fatal(id) => ( /\ progress'[id].status = "FAILED"
                           /\ progress'[id].pullRequestUrl = None
                           /\ writes' = writes )]_vars

\* C18 witness: a job whose units were counted failed before its first unit,
\* and another job is COMPLETED with a pull request
C18_Witness ==
    \E id, other \in DOMAIN progress :
        /\ progress[id].status = "FAILED"
        /\ progress[id].totalFiles > 0
        /\ progress[other].status = "COMPLETED"
        /\ progress[other].pullRequestUrl # None

\* C19: the units of an INCREMENTAL job have their source among the job's
\* changed files, none if the job has no changed files; only a FULL job
\* runs the engine that walks the repository tree.
C19_IncrementalWithinChangedFiles ==
    \A id \in DOMAIN active :
        LET data == active[id].job
            changed == IF "changedFiles" \in DOMAIN data
                       THEN Range(data.changedFiles) ELSE {}
        IN  /\ data.type = "INCREMENTAL"
               => \A k \in 1..Len(active[id].units) :
                     active[id].units[k].sourcePath \in changed
            /\ active[id].engine = "executeTranslation" => data.type = "FULL"

\* The calls made so far that write a file to the holding branch
WriteCalls == {i \in 1..Len(execution.calls) :
                 execution.calls[i].call = "createOrUpdateFile"}

\* C26: in every interleaving of the units of a job, git.createRef for the
\* holding branch was called and has returned before createOrUpdateFile is
\* called for any unit, and no two units whose target path is the same are
\* inside createOrUpdateFile at the same time.
C26_BranchBeforeWrites ==
    /\ \A i \in WriteCalls :
          \E j \in 1..(i - 1) : execution.calls[j].call = "createRef"
    /\ \A k \in 1..Len(execution.pc) :
          execution.pc[k] \in {"writing", "done"} => execution.branch = "created"
    /\ \A k1, k2 \in 1..Len(execution.pc) :
          ( /\ k1 # k2
            /\ execution.pc[k1] = "writing"
            /\ execution.pc[k2] = "writing" )
          => active[1].units[k1].targetPath # active[1].units[k2].targetPath

\* C26 witness: two units with the same target path are in flight; one is
\* inside createOrUpdateFile and the other one, translated, waits
C26_Witness ==
    \E k1, k2 \in 1..Len(execution.pc) :
        /\ k1 # k2
        /\ execution.pc[k1] = "writing"
        /\ execution.pc[k2] = "translated"
        /\ active[1].units[k1].targetPath = active[1].units[k2].targetPath

====
